---- MODULE Spec2Model ----
(***************************************************************************)
(* Model of the multisig ticket triage service: the indexed ticket store   *)
(* (src/src/ticket-storage.js) over an ordered key-value store, and the    *)
(* urgency scorer (src/src/urgency-scorer.js), and the server that        *)
(* scores and stores submitted tickets and re-triages the pending ones on  *)
(* a timer (src/src/server.js).                                            *)
(*                                                                         *)
(* Strings are sequences of ASCII codes, so that key construction, the     *)
(* lexicographic key order of the key-value store and key.split(":") are   *)
(* computed as the code computes them.  Urgencies and scores are counted   *)
(* in thousandths (450 is 0.45); timestamps are integers.                  *)
(***************************************************************************)
EXTENDS Integers, Sequences, FiniteSets, TLC

VARIABLES hbee, now, ops, lastOp, written, initialized, scoreOp,
          scheduler, tick, rpc, client, announce, runs

storeVars == <<hbee, now, ops, lastOp, written>>
scoreVars == <<initialized, scoreOp>>
serverVars == <<scheduler, tick, rpc>>
peerVars == <<client, announce, runs>>
vars == <<hbee, now, ops, lastOp, written, initialized, scoreOp,
          scheduler, tick, rpc, client, announce, runs>>

----------------------------------------------------------------------------
(* String constants                                                        *)

STicket == <<116, 105, 99, 107, 101, 116, 58>>                  \* "ticket:"
SIndex == <<105, 110, 100, 101, 120, 58>>   \* "index:"
SIndexTime == <<105, 110, 100, 101, 120, 58, 116, 105, 109, 101, 58>>   \* "index:time:"
SIndexUrgency == <<105, 110, 100, 101, 120, 58, 117, 114, 103, 101, 110, 99, 121, 58>>   \* "index:urgency:"
SIndexStatus == <<105, 110, 100, 101, 120, 58, 115, 116, 97, 116, 117, 115, 58>>   \* "index:status:"
SIndexType == <<105, 110, 100, 101, 120, 58, 116, 121, 112, 101, 58>>   \* "index:type:"
SIndexDeadline == <<105, 110, 100, 101, 120, 58, 100, 101, 97, 100, 108, 105, 110, 101, 58>>   \* "index:deadline:"
STilde == <<126>>                                               \* "~"
SColon == <<58>>                                                \* ":"
SDot == <<46>>                                                  \* "."
SOne == <<49>>                                                  \* "1"
SPending == <<112, 101, 110, 100, 105, 110, 103>>               \* "pending"
SDone == <<100, 111, 110, 101>>                                 \* "done"
SNaN == <<78, 97, 78>>                                             \* "NaN"
SUndefined == <<117, 110, 100, 101, 102, 105, 110, 101, 100>>   \* "undefined"
SIdA == <<97>>                                                  \* "a"
SPayroll == <<112, 97, 121, 114, 111, 108, 108>>                \* "payroll"
SUSD == <<85, 83, 68>>                                          \* "USD"
SETH == <<69, 84, 72>>                                          \* "ETH"
SBTC == <<66, 84, 67>>                                          \* "BTC"
KEmergency == <<101, 109, 101, 114, 103, 101, 110, 99, 121>>    \* "emergency"
KUrgent == <<117, 114, 103, 101, 110, 116>>                     \* "urgent"
KSecurity == <<115, 101, 99, 117, 114, 105, 116, 121>>          \* "security"
KBreach == <<98, 114, 101, 97, 99, 104>>                        \* "breach"
KPayroll == <<112, 97, 121, 114, 111, 108, 108>>                \* "payroll"
KSalary == <<115, 97, 108, 97, 114, 121>>                       \* "salary"
KVendor == <<118, 101, 110, 100, 111, 114>>                     \* "vendor"
KPayment == <<112, 97, 121, 109, 101, 110, 116>>                \* "payment"
KTreasury == <<116, 114, 101, 97, 115, 117, 114, 121>>          \* "treasury"
KInvestment == <<105, 110, 118, 101, 115, 116, 109, 101, 110, 116>>   \* "investment"
KMaintenance == <<109, 97, 105, 110, 116, 101, 110, 97, 110, 99, 101>>   \* "maintenance"
KUpgrade == <<117, 112, 103, 114, 97, 100, 101>>                \* "upgrade"
KTest == <<116, 101, 115, 116>>                                 \* "test"
KDemo == <<100, 101, 109, 111>>                                 \* "demo"
STransaction == <<116, 114, 97, 110, 115, 97, 99, 116, 105, 111, 110>>   \* "transaction"
SOf == <<32, 111, 102, 32>>                                     \* " of "
SSpace == <<32>>                                                \* " "
SMinus == <<45>>                                                \* "-"
SUnknownValue == <<117, 110, 107, 110, 111, 119, 110, 32, 118, 97, 108, 117, 101>>   \* "unknown value"
STo == <<116, 111, 32>>                                         \* "to "
SEllipsis == <<46, 46, 46>>                                     \* "..."
SToUnknownRecipient == <<116, 111, 32, 117, 110, 107, 110, 111, 119, 110, 32, 114, 101, 99, 105, 112, 105, 101, 110, 116>>   \* "to unknown recipient"
SLLMFailed == <<76, 76, 77, 32, 97, 110, 97, 108, 121, 115, 105, 115, 32, 102, 97, 105, 108, 101, 100>>   \* "LLM analysis failed"
SLLMUnavailable == <<76, 76, 77, 32, 97, 110, 97, 108, 121, 115, 105, 115, 32, 117, 110, 97, 118, 97, 105, 108, 97, 98, 108, 101>>   \* "LLM analysis unavailable"
THighValue == <<104, 105, 103, 104, 45, 118, 97, 108, 117, 101>>   \* "high-value"
TLowValue == <<108, 111, 119, 45, 118, 97, 108, 117, 101>>      \* "low-value"
TMediumValue == <<109, 101, 100, 105, 117, 109, 45, 118, 97, 108, 117, 101>>   \* "medium-value"
TApproved == <<97, 112, 112, 114, 111, 118, 101, 100>>          \* "approved"
TPendingApproval == <<112, 101, 110, 100, 105, 110, 103, 45, 97, 112, 112, 114, 111, 118, 97, 108>>   \* "pending-approval"
TPartiallyApproved == <<112, 97, 114, 116, 105, 97, 108, 108, 121, 45, 97, 112, 112, 114, 111, 118, 101, 100>>   \* "partially-approved"
TUrgentDeadline == <<117, 114, 103, 101, 110, 116, 45, 100, 101, 97, 100, 108, 105, 110, 101>>   \* "urgent-deadline"
TNearDeadline == <<110, 101, 97, 114, 45, 100, 101, 97, 100, 108, 105, 110, 101>>   \* "near-deadline"
SEmergencyWithdrawal == <<69, 109, 101, 114, 103, 101, 110, 99, 121, 32, 87, 105, 116, 104, 100, 114, 97, 119, 97, 108>>   \* "Emergency Withdrawal"
STestPayment == <<116, 101, 115, 116, 32, 112, 97, 121, 109, 101, 110, 116>>   \* "test payment"
SAddress == <<48, 120, 55, 52, 50, 100, 51, 53, 67, 99, 54, 54>>   \* "0x742d35Cc66"
SLLMSummary == <<82, 111, 117, 116, 105, 110, 101, 32, 112, 97, 121, 114, 111, 108, 108, 32, 114, 117, 110>>   \* "Routine payroll run"
SHigh == <<104, 105, 103, 104>>                                 \* "high"
SNumText == <<48, 46, 48, 53>>                                  \* "0.05"
STagRisk == <<114, 105, 115, 107>>                              \* "risk"

----------------------------------------------------------------------------
(* String operations of the JavaScript runtime                             *)

MinOf(S) == CHOOSE m \in S : \A x \in S : m <= x

\* s < t in the byte order of the keys (utf-8 key encoding, ASCII here)
StrLess(s, t) ==
    LET n == IF Len(s) < Len(t) THEN Len(s) ELSE Len(t)
        diff == {i \in 1..n : s[i] # t[i]}
    IN  IF diff = {} THEN Len(s) < Len(t)
        ELSE s[MinOf(diff)] < t[MinOf(diff)]

StrLe(s, t) == s = t \/ StrLess(s, t)

\* String.prototype.startsWith
StartsWith(s, p) == Len(p) <= Len(s) /\ SubSeq(s, 1, Len(p)) = p

\* String.prototype.split(":")
Split(s) ==
    LET P == {i \in 1..Len(s) : s[i] = SColon[1]}
        n == Cardinality(P)
        Pos(j) == IF j = 0 THEN 0
                  ELSE IF j = n + 1 THEN Len(s) + 1
                  ELSE CHOOSE p \in P : Cardinality({q \in P : q < p}) = j - 1
    IN  [j \in 1..(n + 1) |-> SubSeq(s, Pos(j - 1) + 1, Pos(j) - 1)]

\* Number -> string for a non-negative integer (template literal `${n}`)
RECURSIVE NumToStr(_)
NumToStr(n) == IF n < 10 THEN <<48 + n>>
               ELSE NumToStr(n \div 10) \o <<48 + (n % 10)>>

\* Number -> string for a non-negative decimal counted in thousandths:
\* 500 is "0.5", 450 is "0.45", 1000 is "1", 0 is "0"
DecToStr(m) ==
    LET f  == m % 1000
        d1 == f \div 100
        d2 == (f \div 10) % 10
        d3 == f % 10
        frac == IF d3 # 0 THEN <<48 + d1, 48 + d2, 48 + d3>>
                ELSE IF d2 # 0 THEN <<48 + d1, 48 + d2>>
                ELSE <<48 + d1>>
    IN  IF f = 0 THEN NumToStr(m \div 1000)
        ELSE NumToStr(m \div 1000) \o SDot \o frac

\* string of decimal digits -> integer
RECURSIVE StrToNum(_)
StrToNum(s) == IF Len(s) = 0 THEN 0
               ELSE 10 * StrToNum(SubSeq(s, 1, Len(s) - 1)) + (s[Len(s)] - 48)

\* decimal text -> number counted in thousandths
StrToDec(s) ==
    LET P == {i \in 1..Len(s) : s[i] = SDot[1]}
    IN  IF P = {} THEN 1000 * StrToNum(s)
        ELSE LET p == MinOf(P)
                 fr == SubSeq(s, p + 1, Len(s))
                 scale == IF Len(fr) = 1 THEN 100 ELSE IF Len(fr) = 2 THEN 10 ELSE 1
             IN  1000 * StrToNum(SubSeq(s, 1, p - 1)) + scale * StrToNum(fr)

\* Number -> string for any integer
IntToStr(n) == IF n < 0 THEN SMinus \o NumToStr(0 - n) ELSE NumToStr(n)

\* String.prototype.toLowerCase (ASCII)
ToLowerCase(s) == [i \in 1..Len(s) |-> IF s[i] \in 65..90 THEN s[i] + 32 ELSE s[i]]

\* String.prototype.includes
Includes(s, sub) ==
    \E i \in 1..(Len(s) - Len(sub) + 1) : SubSeq(s, i, i + Len(sub) - 1) = sub

\* the text is a decimal numeral (digits with at most one dot)
IsDecText(s) ==
    /\ Len(s) > 0
    /\ \A i \in 1..Len(s) : s[i] \in 48..57 \/ s[i] = SDot[1]
    /\ Cardinality({i \in 1..Len(s) : s[i] = SDot[1]}) <= 1
    /\ \E i \in 1..Len(s) : s[i] \in 48..57

----------------------------------------------------------------------------
(* JavaScript values.  A number that can be NaN is Num(n) or NaN; null is  *)
(* Null.                                                                   *)

NaN == [nan |-> TRUE]
Num(n) == [num |-> n]
IsNaN(x) == "nan" \in DOMAIN x
Null == [null |-> TRUE]

\* ToNumber of a number or null, for a value that is not NaN
NumOf(x) == IF x = Null THEN 0 ELSE x.num

----------------------------------------------------------------------------
(* JSON encoding of a ticket object.  An object is a function from field   *)
(* names to values; a field that is undefined is absent from the domain.   *)

IntFields == {"createdAt", "deadline", "storedAt", "lastUpdated", "requiredApprovals"}
DecFields == {"urgency"}
SignedFields == {"value"}
StrFields == {"id", "status", "type", "currency", "summary"}

\* a number that can be NaN, counted in thousandths
EncodeDec(x) == IF IsNaN(x) \/ x = Null THEN [null |-> TRUE]
                ELSE [num |-> DecToStr(x.num)]
DecodeDec(t) == IF "null" \in DOMAIN t THEN Null ELSE Num(StrToDec(t.num))

\* urgencyBreakdown: {baseUrgency, llmAdjustment, factors}; llmAdjustment
\* can be negative, the other numbers cannot
EncodeBreakdown(b) ==
    [baseUrgency |-> [num |-> DecToStr(b.baseUrgency)],
     llmAdjustment |->
         IF IsNaN(b.llmAdjustment) \/ b.llmAdjustment = Null THEN [null |-> TRUE]
         ELSE IF b.llmAdjustment.num < 0
              THEN [num |-> SMinus \o DecToStr(0 - b.llmAdjustment.num)]
              ELSE [num |-> DecToStr(b.llmAdjustment.num)],
     factors |-> [f \in DOMAIN b.factors |-> [num |-> DecToStr(b.factors[f])]]]
DecodeBreakdown(t) ==
    [baseUrgency |-> StrToDec(t.baseUrgency.num),
     llmAdjustment |->
         IF "null" \in DOMAIN t.llmAdjustment THEN Null
         ELSE IF Head(t.llmAdjustment.num) = SMinus[1]
              THEN Num(0 - StrToDec(Tail(t.llmAdjustment.num)))
              ELSE Num(StrToDec(t.llmAdjustment.num)),
     factors |-> [f \in DOMAIN t.factors |-> StrToDec(t.factors[f].num)]]

\* JSON.stringify: numbers become decimal text, NaN and null become null,
\* strings stay text
\* arrays and nested objects keep their structure
JSONStringify(obj) ==
    [f \in DOMAIN obj |->
        IF f \in IntFields THEN [num |-> NumToStr(obj[f])]
        ELSE IF f \in SignedFields THEN [num |-> IntToStr(obj[f])]
        ELSE IF f \in DecFields THEN EncodeDec(obj[f])
        ELSE IF f = "urgencyBreakdown" THEN [obj |-> EncodeBreakdown(obj[f])]
        ELSE IF f \in StrFields THEN [str |-> obj[f]]
        ELSE [val |-> obj[f]]]

\* JSON.parse
JSONParse(text) ==
    [f \in DOMAIN text |->
        IF f \in DecFields THEN DecodeDec(text[f])
        ELSE IF f \in SignedFields
             THEN (IF Head(text[f].num) = SMinus[1]
                   THEN 0 - StrToNum(Tail(text[f].num))
                   ELSE StrToNum(text[f].num))
        ELSE IF f \in IntFields THEN StrToNum(text[f].num)
        ELSE IF f = "urgencyBreakdown" THEN DecodeBreakdown(text[f].obj)
        ELSE IF f \in StrFields THEN text[f].str
        ELSE text[f].val]

----------------------------------------------------------------------------
(* The ordered key-value store (Hyperbee): a function from keys to values  *)

Marker == [raw |-> SOne]          \* Buffer.from("1", "utf-8")

Put(h, k, v) == [x \in (DOMAIN h) \cup {k} |-> IF x = k THEN v ELSE h[x]]
Del(h, k) == [x \in (DOMAIN h) \ {k} |-> h[x]]

\* keys in ascending key order
RECURSIVE SortKeys(_)
SortKeys(K) ==
    IF K = {} THEN << >>
    ELSE LET m == CHOOSE k \in K : \A x \in K : StrLe(k, x)
         IN  <<m>> \o SortKeys(K \ {m})

\* hbee.createReadStream({gte, lte}): the keys of the range, ascending
CreateReadStream(h, gte, lte) ==
    SortKeys({k \in DOMAIN h : StrLe(gte, k) /\ StrLe(k, lte)})

----------------------------------------------------------------------------
(* TicketStorage                                                           *)

EmptyObj == << >>
Has(obj, f) == f \in DOMAIN obj
\* JavaScript truthiness of a numeric or string field
TruthyNum(obj, f) == Has(obj, f) /\ obj[f] # 0
TruthyStr(obj, f) == Has(obj, f) /\ obj[f] # << >>

\* template literal of a possibly undefined number
NumOrUndefined(obj, f) == IF Has(obj, f) THEN NumToStr(obj[f]) ELSE SUndefined

\* Math.round(ticket.urgency * 10) / 10, as text
UrgencyKey(u) == IF IsNaN(u) THEN SNaN
                 ELSE DecToStr(((NumOf(u) + 50) \div 100) * 100)

PrimaryKey(id) == STicket \o id

getTicket(h, ticketId) ==
    IF PrimaryKey(ticketId) \in DOMAIN h
    THEN JSONParse(h[PrimaryKey(ticketId)].json)
    ELSE Null

createIndexes(h, ticket, clock) ==
    LET timestamp == IF TruthyNum(ticket, "createdAt") THEN ticket.createdAt ELSE clock
        h1 == Put(h, SIndexTime \o NumToStr(timestamp) \o SColon \o ticket.id, Marker)
        h2 == Put(h1, SIndexUrgency \o UrgencyKey(ticket.urgency) \o SColon \o ticket.id, Marker)
        h3 == Put(h2, SIndexStatus \o ticket.status \o SColon \o ticket.id, Marker)
        h4 == IF TruthyStr(ticket, "type")
              THEN Put(h3, SIndexType \o ticket.type \o SColon \o ticket.id, Marker)
              ELSE h3
        h5 == IF TruthyNum(ticket, "deadline")
              THEN Put(h4, SIndexDeadline \o NumToStr(ticket.deadline) \o SColon \o ticket.id, Marker)
              ELSE h4
    IN  h5

\* storeTicket that writes the ticket as given, without storedAt
storeTicketNoStoredAt(h, ticket, clock) ==
    createIndexes(Put(h, PrimaryKey(ticket.id), [json |-> JSONStringify(ticket)]),
                  ticket, clock)

storeTicket(h, ticket, clock) ==
    LET ticketData == [f \in (DOMAIN ticket) \cup {"storedAt"} |->
                          IF f = "storedAt" THEN clock ELSE ticket[f]]
        h1 == Put(h, PrimaryKey(ticket.id), [json |-> JSONStringify(ticketData)])
    IN  createIndexes(h1, ticket, clock)

deleteIndexes(h, ticket) ==
    LET h1 == Del(h, SIndexTime \o NumOrUndefined(ticket, "createdAt") \o SColon \o ticket.id)
        h2 == Del(h1, SIndexUrgency \o UrgencyKey(ticket.urgency) \o SColon \o ticket.id)
        h3 == Del(h2, SIndexStatus \o ticket.status \o SColon \o ticket.id)
        h4 == IF TruthyStr(ticket, "type")
              THEN Del(h3, SIndexType \o ticket.type \o SColon \o ticket.id)
              ELSE h3
        h5 == IF TruthyNum(ticket, "deadline")
              THEN Del(h4, SIndexDeadline \o NumToStr(ticket.deadline) \o SColon \o ticket.id)
              ELSE h4
    IN  h5

\* deleteTicket that removes the index entries but not the primary record
deleteTicketKeepPrimary(h, ticketId) ==
    LET ticket == getTicket(h, ticketId)
    IN  IF ticket = Null THEN h ELSE deleteIndexes(h, ticket)

deleteTicket(h, ticketId) ==
    LET ticket == getTicket(h, ticketId)
    IN  IF ticket = Null THEN h
        ELSE deleteIndexes(Del(h, PrimaryKey(ticketId)), ticket)

\* the keys createIndexes puts, in the order of its puts
createIndexKeys(ticket, clock) ==
    LET timestamp == IF TruthyNum(ticket, "createdAt") THEN ticket.createdAt ELSE clock
    IN  << SIndexTime \o NumToStr(timestamp) \o SColon \o ticket.id,
           SIndexUrgency \o UrgencyKey(ticket.urgency) \o SColon \o ticket.id,
           SIndexStatus \o ticket.status \o SColon \o ticket.id >>
        \o (IF TruthyStr(ticket, "type")
            THEN <<SIndexType \o ticket.type \o SColon \o ticket.id>> ELSE << >>)
        \o (IF TruthyNum(ticket, "deadline")
            THEN <<SIndexDeadline \o NumToStr(ticket.deadline) \o SColon \o ticket.id>>
            ELSE << >>)

\* the keys deleteIndexes deletes, in the order of its dels
deleteIndexKeys(ticket) ==
    << SIndexTime \o NumOrUndefined(ticket, "createdAt") \o SColon \o ticket.id,
       SIndexUrgency \o UrgencyKey(ticket.urgency) \o SColon \o ticket.id,
       SIndexStatus \o ticket.status \o SColon \o ticket.id >>
    \o (IF TruthyStr(ticket, "type")
        THEN <<SIndexType \o ticket.type \o SColon \o ticket.id>> ELSE << >>)
    \o (IF TruthyNum(ticket, "deadline")
        THEN <<SIndexDeadline \o NumToStr(ticket.deadline) \o SColon \o ticket.id>>
        ELSE << >>)

RECURSIVE PutMarkers(_, _)
PutMarkers(h, keys) ==
    IF keys = << >> THEN h ELSE PutMarkers(Put(h, Head(keys), Marker), Tail(keys))

RECURSIVE DelKeys(_, _)
DelKeys(h, keys) ==
    IF keys = << >> THEN h ELSE DelKeys(Del(h, Head(keys)), Tail(keys))

\* storeTicket cut short by a crash after the primary put and the first k
\* index puts
storeTicketCrashed(h, ticket, clock, k) ==
    LET ticketData == [f \in (DOMAIN ticket) \cup {"storedAt"} |->
                          IF f = "storedAt" THEN clock ELSE ticket[f]]
        h1 == Put(h, PrimaryKey(ticket.id), [json |-> JSONStringify(ticketData)])
    IN  PutMarkers(h1, SubSeq(createIndexKeys(ticket, clock), 1, k))

\* deleteTicket of a stored ticket cut short by a crash after the primary
\* del and the first k index dels
deleteTicketCrashed(h, ticketId, k) ==
    LET ticket == getTicket(h, ticketId)
    IN  DelKeys(Del(h, PrimaryKey(ticketId)), SubSeq(deleteIndexKeys(ticket), 1, k))

\* the index scans push parts[2] of key.split(":") for every key they keep
PartsOfKeys(keys, prefix) ==
    LET kept == SelectSeq(keys, LAMBDA k : StartsWith(k, prefix) /\ Len(Split(k)) >= 3)
    IN  [i \in 1..Len(kept) |-> Split(kept[i])[3]]

searchByTimeRange(h, q) ==
    LET startKey == IF TruthyNum(q, "startTime")
                    THEN SIndexTime \o NumToStr(q.startTime) ELSE SIndexTime
        endKey == IF TruthyNum(q, "endTime")
                  THEN SIndexTime \o NumToStr(q.endTime) ELSE SIndexTime \o STilde
    IN  PartsOfKeys(CreateReadStream(h, startKey, endKey), SIndexTime)

searchByMinUrgency(h, minUrgency) ==
    PartsOfKeys(CreateReadStream(h, SIndexUrgency \o DecToStr(minUrgency),
                                    SIndexUrgency \o STilde),
                SIndexUrgency)

searchByStatus(h, status) ==
    PartsOfKeys(CreateReadStream(h, SIndexStatus \o status,
                                    SIndexStatus \o status \o STilde),
                SIndexStatus \o status \o SColon)

getAllTickets(h) ==
    LET keys == SelectSeq(CreateReadStream(h, STicket, STicket \o STilde),
                          LAMBDA k : StartsWith(k, STicket) /\ Has(h[k], "json"))
    IN  [i \in 1..Len(keys) |-> JSONParse(h[keys[i]].json)]

\* the loop of searchTickets taking an index hit without primary record
\* for a ticket
RECURSIVE CollectTrusting(_, _, _)
CollectTrusting(h, ids, acc) ==
    IF ids = << >> THEN acc
    ELSE LET id == Head(ids)
             t == getTicket(h, id)
             acc1 == IF id \in acc.seen THEN acc
                     ELSE [seen |-> acc.seen \cup {id},
                           tickets |-> IF t # Null THEN Append(acc.tickets, t)
                                       ELSE Append(acc.tickets, [id |-> id, urgency |-> Num(0)]),
                           fetched |-> Append(acc.fetched, id)]
         IN  CollectTrusting(h, Tail(ids), acc1)

\* the loop of searchTickets without seenIds: every id of a scan is fetched
RECURSIVE CollectNoSeen(_, _, _)
CollectNoSeen(h, ids, acc) ==
    IF ids = << >> THEN acc
    ELSE LET id == Head(ids)
             t == getTicket(h, id)
             acc1 == [seen |-> acc.seen \cup {id},
                      tickets |-> IF t # Null THEN Append(acc.tickets, t)
                                  ELSE acc.tickets,
                      fetched |-> Append(acc.fetched, id)]
         IN  CollectNoSeen(h, Tail(ids), acc1)

\* one "for (const ticketId of ...)" loop of searchTickets:
\* acc.tickets is the result list, acc.seen the seenIds set, acc.fetched
\* the ids handed to getTicket so far
RECURSIVE Collect(_, _, _)
Collect(h, ids, acc) ==
    IF ids = << >> THEN acc
    ELSE LET id == Head(ids)
             t == getTicket(h, id)
             acc1 == IF id \in acc.seen THEN acc
                     ELSE [seen |-> acc.seen \cup {id},
                           tickets |-> IF t # Null THEN Append(acc.tickets, t)
                                       ELSE acc.tickets,
                           fetched |-> Append(acc.fetched, id)]
         IN  Collect(h, Tail(ids), acc1)

getPendingTickets(h) ==
    LET ids == searchByStatus(h, SPending)
        got == SelectSeq(ids, LAMBDA id : getTicket(h, id) # Null)
    IN  [i \in 1..Len(got) |-> getTicket(h, got[i])]

\* which sections of searchTickets run
UsesTime(q) == TruthyNum(q, "startTime") \/ TruthyNum(q, "endTime")
UsesUrgency(q) == Has(q, "minUrgency")
UsesStatus(q) == TruthyStr(q, "status")

\* searchTickets whose predicate sections exclude each other (else-if)
AssembleFirstPredicate(h, q) ==
    LET a0 == [seen |-> {}, tickets |-> << >>, fetched |-> << >>]
    IN  IF UsesTime(q) THEN Collect(h, searchByTimeRange(h, q), a0).tickets
        ELSE IF UsesUrgency(q)
             THEN Collect(h, searchByMinUrgency(h, q.minUrgency), a0).tickets
        ELSE IF UsesStatus(q) THEN Collect(h, searchByStatus(h, q.status), a0).tickets
        ELSE getAllTickets(h)

\* tickets, seenIds and the getTicket calls made, after the three
\* predicate sections of searchTickets
Gather(h, q) ==
    LET a0 == [seen |-> {}, tickets |-> << >>, fetched |-> << >>]
        a1 == IF UsesTime(q) THEN Collect(h, searchByTimeRange(h, q), a0) ELSE a0
        a2 == IF UsesUrgency(q) THEN Collect(h, searchByMinUrgency(h, q.minUrgency), a1) ELSE a1
    IN  IF UsesStatus(q) THEN Collect(h, searchByStatus(h, q.status), a2) ELSE a2

\* the list searchTickets has assembled before it sorts
Assemble(h, q) ==
    LET a3 == Gather(h, q)
    IN  IF ~UsesTime(q) /\ ~UsesUrgency(q) /\ ~UsesStatus(q)
        THEN a3.tickets \o getAllTickets(h)
        ELSE a3.tickets

Sign(x) == IF x < 0 THEN -1 ELSE IF x > 0 THEN 1 ELSE 0

\* the comparator of tickets.sort; a NaN difference (a createdAt is
\* undefined) counts as +0 (ECMAScript SortCompare)
Compare(a, b) ==
    IF a.urgency # b.urgency THEN Sign(NumOf(b.urgency) - NumOf(a.urgency))
    ELSE IF Has(a, "createdAt") /\ Has(b, "createdAt")
         THEN Sign(b.createdAt - a.createdAt)
         ELSE 0

\* ECMAScript: a consistent comparison function for the values of the list
ConsistentComparator(list) ==
    \A i, j, k \in 1..Len(list) :
        LET a == list[i]
            b == list[j]
            c == list[k]
        IN  /\ Compare(a, a) = 0
            /\ Compare(a, b) = 0 => Compare(b, a) = 0
            /\ (Compare(a, b) = 0 /\ Compare(b, c) = 0) => Compare(a, c) = 0
            /\ Compare(a, b) < 0 => Compare(b, a) > 0
            /\ (Compare(a, b) < 0 /\ Compare(b, c) < 0) => Compare(a, c) < 0
            /\ Compare(a, b) > 0 => Compare(b, a) < 0
            /\ (Compare(a, b) > 0 /\ Compare(b, c) > 0) => Compare(a, c) > 0

\* insert x behind the last element that does not sort after it
InsertSorted(sorted, x) ==
    LET before == {i \in 1..Len(sorted) : Compare(sorted[i], x) <= 0}
        p == IF before = {} THEN 0 ELSE CHOOSE i \in before : \A j \in before : j <= i
    IN  SubSeq(sorted, 1, p) \o <<x>> \o SubSeq(sorted, p + 1, Len(sorted))

RECURSIVE StableSort(_)
StableSort(list) ==
    IF list = << >> THEN << >>
    ELSE InsertSorted(StableSort(SubSeq(list, 1, Len(list) - 1)), list[Len(list)])

AllOrders(list) ==
    LET n == Len(list)
        P == {p \in [1..n -> 1..n] : \A i, j \in 1..n : i # j => p[i] # p[j]}
    IN  {[i \in 1..n |-> list[p[i]]] : p \in P}

\* Array.prototype.sort: stable for a consistent comparator, otherwise the
\* order is implementation-defined
SortOutcomes(list) ==
    IF ConsistentComparator(list) THEN {StableSort(list)} ELSE AllOrders(list)

DefaultLimit == 50

\* Array.prototype.slice(0, limit)
Slice(list, limit) ==
    LET n == Len(list)
        end == IF limit < 0 THEN (IF n + limit < 0 THEN 0 ELSE n + limit)
               ELSE IF limit > n THEN n ELSE limit
    IN  SubSeq(list, 1, end)

LimitOf(q) == IF Has(q, "limit") THEN q.limit ELSE DefaultLimit

\* the sequences searchTickets(q) can return
searchTickets(h, q) ==
    {Slice(sorted, LimitOf(q)) : sorted \in SortOutcomes(Assemble(h, q))}

\* a value under a "ticket:" key that JSON.parse rejects
SBrace == <<123>>                 \* "{"
Malformed == [raw |-> SBrace]

\* getTicket(ticketId) rejects: the record is there and JSON.parse, which
\* getTicket calls outside any try, throws
getTicketThrows(h, ticketId) ==
    /\ PrimaryKey(ticketId) \in DOMAIN h
    /\ ~Has(h[PrimaryKey(ticketId)], "json")

Range(list) == {list[i] : i \in 1..Len(list)}

\* the ids the predicate sections of searchTickets hand to getTicket
FetchedIds(h, q) ==
    (IF UsesTime(q) THEN Range(searchByTimeRange(h, q)) ELSE {})
    \cup (IF UsesUrgency(q) THEN Range(searchByMinUrgency(h, q.minUrgency)) ELSE {})
    \cup (IF UsesStatus(q) THEN Range(searchByStatus(h, q.status)) ELSE {})

\* searchTickets(options) rejects: one of its getTicket calls does
searchTicketsThrows(h, q) == \E id \in FetchedIds(h, q) : getTicketThrows(h, id)

\* a counter object of getTicketStats: how many tickets have each key,
\* keys[i] being the key of the i-th ticket scanned
CountBy(keys) ==
    [k \in Range(keys) |-> Cardinality({i \in 1..Len(keys) : keys[i] = k})]

SUnknown == <<117, 110, 107, 110, 111, 119, 110>>   \* "unknown"

\* getTicketStats(): the scan of getAllTickets, which skips a record that
\* JSON.parse rejects; object keys are the texts of the values
getTicketStats(h) ==
    LET tickets == getAllTickets(h)
        n == Len(tickets)
    IN  [total |-> n,
         byStatus |-> CountBy([i \in 1..n |->
                         IF Has(tickets[i], "status") THEN tickets[i].status
                         ELSE SUndefined]),
         byUrgency |-> CountBy([i \in 1..n |->
                         IF ~Has(tickets[i], "urgency") \/ IsNaN(tickets[i].urgency)
                         THEN SNaN
                         ELSE DecToStr((NumOf(tickets[i].urgency) \div 100) * 100)]),
         byType |-> CountBy([i \in 1..n |->
                         IF TruthyStr(tickets[i], "type") THEN tickets[i].type
                         ELSE SUnknown])]

----------------------------------------------------------------------------
(* UrgencyScorer.  Scores, factors and adjustments are counted in          *)
(* thousandths, weights in hundredths, time in seconds (the code's         *)
(* millisecond thresholds divided by 1000).  A JavaScript number that can  *)
(* be NaN is Num(n) or NaN.                                                *)

MathMin(x, y) == IF IsNaN(x) \/ IsNaN(y) THEN NaN
                 ELSE IF x.num < y.num THEN x ELSE y
MathMax(x, y) == IF IsNaN(x) \/ IsNaN(y) THEN NaN
                 ELSE IF x.num > y.num THEN x ELSE y
Plus(x, y) == IF IsNaN(x) \/ IsNaN(y) THEN NaN ELSE Num(x.num + y.num)

\* values a parsed JSON field can have
JSUndefined == [t |-> "undefined"]
JSNull == [t |-> "null"]
JSNumber(n) == [t |-> "number", n |-> n]
JSString(s) == [t |-> "string", s |-> s]
JSArray(items) == [t |-> "array", items |-> items]
JSObject == [t |-> "object"]

Field(obj, f) == IF Has(obj, f) THEN obj[f] ELSE JSUndefined

\* JavaScript falsiness
Falsy(v) == \/ v.t \in {"undefined", "null"}
            \/ v.t = "number" /\ v.n = 0
            \/ v.t = "string" /\ v.s = << >>

\* ToNumber, as Math.min applies it to its arguments
ToNumber(v) ==
    IF v.t = "number" THEN Num(v.n)
    ELSE IF v.t = "null" THEN Num(0)
    ELSE IF v.t = "string" /\ v.s = << >> THEN Num(0)
    ELSE IF v.t = "string" /\ IsDecText(v.s) THEN Num(StrToDec(v.s))
    ELSE NaN

calculateValueFactor(ticket) ==
    LET value == IF TruthyNum(ticket, "value") THEN ticket.value ELSE 0
        currency == IF TruthyStr(ticket, "currency") THEN ticket.currency ELSE SUSD
        usdValue == IF currency = SETH THEN value * 2000
                    ELSE IF currency = SBTC THEN value * 45000
                    ELSE value
    IN  IF usdValue = 0 \/ ~TruthyNum(ticket, "value") THEN 100
        ELSE IF usdValue < 1000 THEN 200
        ELSE IF usdValue < 10000 THEN 400
        ELSE IF usdValue < 100000 THEN 700
        ELSE IF usdValue < 1000000 THEN 900
        ELSE 1000

\* calculateDeadlineFactor for which a deadline that has passed no longer
\* counts
calculateDeadlineFactorExpired(ticket, clock) ==
    IF ~TruthyNum(ticket, "deadline") THEN 300
    ELSE LET timeLeft == ticket.deadline - clock
         IN  IF timeLeft < 0 THEN 100
             ELSE IF timeLeft < 3600 THEN 900
             ELSE IF timeLeft < 86400 THEN 700
             ELSE IF timeLeft < 604800 THEN 500
             ELSE IF timeLeft < 2592000 THEN 300
             ELSE 100

calculateDeadlineFactor(ticket, clock) ==
    IF ~TruthyNum(ticket, "deadline") THEN 300
    ELSE LET timeLeft == ticket.deadline - clock
         IN  IF timeLeft < 0 THEN 1000
             ELSE IF timeLeft < 3600 THEN 900
             ELSE IF timeLeft < 86400 THEN 700
             ELSE IF timeLeft < 604800 THEN 500
             ELSE IF timeLeft < 2592000 THEN 300
             ELSE 100

\* ticket.approvals is modelled by its length
ApprovalsCount(ticket) == IF Has(ticket, "approvals") THEN ticket.approvals ELSE 0
RequiredApprovals(ticket) ==
    IF TruthyNum(ticket, "requiredApprovals") THEN ticket.requiredApprovals ELSE 2

\* calculateApprovalsFactor that looks for "one approval left" before
\* "no approvals yet"
calculateApprovalsFactorOneLeftFirst(ticket) ==
    LET required == RequiredApprovals(ticket)
        current == ApprovalsCount(ticket)
    IN  IF current >= required THEN 100
        ELSE IF current = required - 1 THEN 300
        ELSE IF current = 0 THEN 900
        ELSE 600

calculateApprovalsFactor(ticket) ==
    LET required == RequiredApprovals(ticket)
        current == ApprovalsCount(ticket)
    IN  IF current >= required THEN 100
        ELSE IF current = 0 THEN 900
        ELSE IF current = required - 1 THEN 300
        ELSE 600

calculateTypeFactor(ticket) ==
    LET type == ToLowerCase(IF TruthyStr(ticket, "type") THEN ticket.type ELSE << >>)
    IN  IF Includes(type, KEmergency) \/ Includes(type, KUrgent) THEN 900
        ELSE IF Includes(type, KSecurity) \/ Includes(type, KBreach) THEN 800
        ELSE IF Includes(type, KPayroll) \/ Includes(type, KSalary) THEN 700
        ELSE IF Includes(type, KVendor) \/ Includes(type, KPayment) THEN 500
        ELSE IF Includes(type, KTreasury) \/ Includes(type, KInvestment) THEN 400
        ELSE IF Includes(type, KMaintenance) \/ Includes(type, KUpgrade) THEN 200
        ELSE IF Includes(type, KTest) \/ Includes(type, KDemo) THEN 100
        ELSE 300

Flag(obj, f) == Has(obj, f) /\ obj[f] = TRUE

calculateRecipientFactor(ticket) ==
    LET recipient == IF Has(ticket, "recipient") THEN ticket.recipient ELSE EmptyObj
    IN  IF Flag(recipient, "isNew") \/ ~Flag(recipient, "verified") THEN 800
        ELSE IF Flag(recipient, "verified") /\ Flag(recipient, "whitelisted") THEN 200
        ELSE 500

getUrgencyFactors(ticket, clock) ==
    [value |-> calculateValueFactor(ticket),
     deadline |-> calculateDeadlineFactor(ticket, clock),
     approvals |-> calculateApprovalsFactor(ticket),
     type |-> calculateTypeFactor(ticket),
     recipient |-> calculateRecipientFactor(ticket)]

\* weights that count every factor alike
weightsEqual == [value |-> 20, deadline |-> 20, approvals |-> 20, type |-> 20, recipient |-> 20]

weights == [value |-> 30, deadline |-> 25, approvals |-> 20, type |-> 15, recipient |-> 10]

RECURSIVE SumOver(_, _)
SumOver(S, f) == IF S = {} THEN 0
                 ELSE LET x == CHOOSE x \in S : TRUE IN f[x] + SumOver(S \ {x}, f)

calculateDeterministicUrgency(ticket, clock) ==
    LET factors == getUrgencyFactors(ticket, clock)
        used == {f \in DOMAIN factors : f \in DOMAIN weights /\ weights[f] # 0}
        totalScore == SumOver(used, [f \in used |-> factors[f] * weights[f]])
        totalWeight == SumOver(used, weights)
    IN  IF totalWeight > 0 THEN totalScore \div totalWeight ELSE 500

\* the backend's answer: the prompt call throws, or it returns text in
\* which /\{[\s\S]*\}/ finds nothing ("text"), finds a block JSON.parse
\* rejects ("malformed"), or finds a block that parses to an object
parseLLMResponse(response) ==
    IF response.kind = "json"
    THEN LET parsed == response.parsed
             adj == IF Falsy(Field(parsed, "adjustment")) THEN JSNumber(0)
                    ELSE Field(parsed, "adjustment")
         IN  [adjustment |-> MathMax(Num(-200), MathMin(Num(200), ToNumber(adj))),
              summary |-> IF Falsy(Field(parsed, "summary")) THEN SLLMUnavailable
                          ELSE parsed.summary.s,
              tags |-> IF Field(parsed, "tags").t = "array" THEN parsed.tags.items
                       ELSE << >>]
    ELSE [adjustment |-> Num(0), summary |-> SLLMFailed, tags |-> << >>]

generateDeterministicSummary(ticket) ==
    LET type == IF TruthyStr(ticket, "type") THEN ticket.type ELSE STransaction
        value == IF TruthyNum(ticket, "value")
                 THEN IntToStr(ticket.value) \o SSpace \o
                      (IF TruthyStr(ticket, "currency") THEN ticket.currency ELSE SUSD)
                 ELSE SUnknownValue
        recipient ==
            IF Has(ticket, "recipient") /\ TruthyStr(ticket.recipient, "address")
            THEN STo \o SubSeq(ticket.recipient.address, 1,
                               IF Len(ticket.recipient.address) < 8
                               THEN Len(ticket.recipient.address) ELSE 8)
                     \o SEllipsis
            ELSE SToUnknownRecipient
    IN  type \o SOf \o value \o SSpace \o recipient

\* generateDeterministicTags that pushes the value tag before the type
generateDeterministicTagsValueFirst(ticket, clock) ==
    LET t1 == IF TruthyStr(ticket, "type") THEN <<ToLowerCase(ticket.type)>> ELSE << >>
        t2 == IF TruthyNum(ticket, "value")
              THEN (IF ticket.value > 100000 THEN <<THighValue>>
                    ELSE IF ticket.value < 1000 THEN <<TLowValue>>
                    ELSE <<TMediumValue>>)
              ELSE << >>
        approvals == ApprovalsCount(ticket)
        required == RequiredApprovals(ticket)
        t3 == IF approvals >= required THEN <<TApproved>>
              ELSE IF approvals = 0 THEN <<TPendingApproval>>
              ELSE <<TPartiallyApproved>>
        t4 == IF TruthyNum(ticket, "deadline")
              THEN (IF ticket.deadline - clock < 86400 THEN <<TUrgentDeadline>>
                    ELSE IF ticket.deadline - clock < 604800 THEN <<TNearDeadline>>
                    ELSE << >>)
              ELSE << >>
    IN  Slice(t2 \o t1 \o t3 \o t4, 5)

generateDeterministicTags(ticket, clock) ==
    LET t1 == IF TruthyStr(ticket, "type") THEN <<ToLowerCase(ticket.type)>> ELSE << >>
        t2 == IF TruthyNum(ticket, "value")
              THEN (IF ticket.value > 100000 THEN <<THighValue>>
                    ELSE IF ticket.value < 1000 THEN <<TLowValue>>
                    ELSE <<TMediumValue>>)
              ELSE << >>
        approvals == ApprovalsCount(ticket)
        required == RequiredApprovals(ticket)
        t3 == IF approvals >= required THEN <<TApproved>>
              ELSE IF approvals = 0 THEN <<TPendingApproval>>
              ELSE <<TPartiallyApproved>>
        t4 == IF TruthyNum(ticket, "deadline")
              THEN (IF ticket.deadline - clock < 86400 THEN <<TUrgentDeadline>>
                    ELSE IF ticket.deadline - clock < 604800 THEN <<TNearDeadline>>
                    ELSE << >>)
              ELSE << >>
    IN  Slice(t1 \o t2 \o t3 \o t4, 5)

\* calculateUrgency that lets a throwing prompt call leave its marks: the
\* summary of a failed analysis instead of the deterministic one
calculateUrgencyFailedSummary(ticket, init, response, clock) ==
    LET baseUrgency == calculateDeterministicUrgency(ticket, clock)
        llm == IF init THEN parseLLMResponse(response)
               ELSE [adjustment |-> Num(0), summary |-> << >>, tags |-> << >>]
        summary == IF llm.summary = << >> THEN generateDeterministicSummary(ticket)
                   ELSE llm.summary
        tags == IF Len(llm.tags) = 0 THEN generateDeterministicTags(ticket, clock)
                ELSE llm.tags
        finalUrgency == MathMax(Num(0), MathMin(Num(1000),
                                   Plus(Num(baseUrgency), llm.adjustment)))
    IN  [score |-> finalUrgency,
         breakdown |-> [baseUrgency |-> baseUrgency,
                        llmAdjustment |-> llm.adjustment,
                        factors |-> getUrgencyFactors(ticket, clock)],
         summary |-> summary,
         tags |-> tags]

\* calculateUrgency(ticket), with the scorer's initialized flag, the answer
\* the backend gives if it is asked, and Date.now()
calculateUrgency(ticket, init, response, clock) ==
    LET baseUrgency == calculateDeterministicUrgency(ticket, clock)
        none == [adjustment |-> Num(0), summary |-> << >>, tags |-> << >>]
        llm == IF init /\ response.kind # "throws" THEN parseLLMResponse(response)
               ELSE none
        summary == IF llm.summary = << >> THEN generateDeterministicSummary(ticket)
                   ELSE llm.summary
        tags == IF Len(llm.tags) = 0 THEN generateDeterministicTags(ticket, clock)
                ELSE llm.tags
        finalUrgency == MathMax(Num(0), MathMin(Num(1000),
                                   Plus(Num(baseUrgency), llm.adjustment)))
    IN  [score |-> finalUrgency,
         breakdown |-> [baseUrgency |-> baseUrgency,
                        llmAdjustment |-> llm.adjustment,
                        factors |-> getUrgencyFactors(ticket, clock)],
         summary |-> summary,
         tags |-> tags]

----------------------------------------------------------------------------
(* Inputs of the model                                                     *)

MaxOps == 3       \* writes (store, update, delete) in one behaviour
NowStart == 20    \* Date.now() at construction

\* ticket ids: an ordinary id and ids that read like an index value
Ids == {SIdA, SOne, SPending}

\* field values of the tickets callers store
TicketShapes ==
    { [createdAt |-> 1, urgency |-> Num(1000), status |-> SPending,
       type |-> SPayroll, deadline |-> 7],
      [createdAt |-> 10, urgency |-> Num(1000), status |-> SPending],
      [urgency |-> Num(1000), status |-> SDone] }

Tickets == {("id" :> id) @@ shape : id \in Ids, shape \in TicketShapes}

\* urgencies a re-triage can write
Urgencies == {Num(450), Num(1000)}

\* search options
Queries ==
    { EmptyObj,
      [limit |-> 1],
      [status |-> SPending],
      [status |-> SPending, limit |-> 1],
      [minUrgency |-> 0],
      [minUrgency |-> 500],
      [startTime |-> 1, endTime |-> 10],
      [startTime |-> 1],
      [startTime |-> 1, status |-> SPending],
      [startTime |-> 1, minUrgency |-> 500],
      [minUrgency |-> 500, status |-> SPending] }

\* tickets handed to the scorer: every combination of these field groups
ValueParts ==
    { EmptyObj, [value |-> 0], [value |-> -5], [value |-> 500], [value |-> 5000],
      [value |-> 20000], [value |-> 200000], [value |-> 100, currency |-> SETH],
      [value |-> 500, currency |-> SETH], [value |-> 500, currency |-> SBTC] }
DeadlineParts ==
    { EmptyObj, [deadline |-> NowStart - 10], [deadline |-> NowStart + 1800],
      [deadline |-> NowStart + 3000000] }
ApprovalParts ==
    { EmptyObj, [approvals |-> 0, requiredApprovals |-> 1],
      [approvals |-> 1, requiredApprovals |-> 3], [approvals |-> 1],
      [approvals |-> 2] }
TypeParts == {EmptyObj, [type |-> SEmergencyWithdrawal], [type |-> STestPayment]}
RecipientParts ==
    { EmptyObj,
      [recipient |-> [address |-> SAddress, verified |-> TRUE, whitelisted |-> TRUE]],
      [recipient |-> [isNew |-> TRUE, verified |-> TRUE]] }

ScoreTickets ==
    { v @@ d @@ a @@ t @@ r :
        v \in ValueParts, d \in DeadlineParts, a \in ApprovalParts,
        t \in TypeParts, r \in RecipientParts }

\* objects the backend's answer can parse to
AdjustmentParts ==
    { EmptyObj, [adjustment |-> JSNumber(50)], [adjustment |-> JSNumber(900)],
      [adjustment |-> JSNumber(-900)], [adjustment |-> JSNull],
      [adjustment |-> JSString(SNumText)], [adjustment |-> JSString(SHigh)] }
SummaryParts == {EmptyObj, [summary |-> JSString(SLLMSummary)]}
TagsParts ==
    { EmptyObj, [tags |-> JSArray(<< >>)],
      [tags |-> JSArray(<<STagRisk, KPayroll, KVendor>>)],
      [tags |-> JSArray(<<STagRisk, KPayroll, KVendor, KUrgent, KSecurity, KTest>>)] }

Responses ==
    { [kind |-> "throws"], [kind |-> "text"], [kind |-> "malformed"] } \cup
    { [kind |-> "json", parsed |-> a @@ b @@ c] :
        a \in AdjustmentParts, b \in SummaryParts, c \in TagsParts }

----------------------------------------------------------------------------
(* State machine of the store.  lastOp records the last call and what it   *)
(* returned; written records, per id, the last write made to it.  A        *)
(* read-only call leaves the store as it is, so whatever can follow it can *)
(* follow the state it was made in: the model records its result and       *)
(* starts no further call from there.                                      *)

NoOp == [op |-> "none"]
Idle == [pc |-> "idle"]
NotWritten == [kind |-> "none"]
ReadOps == {"getTicket", "getPendingTickets", "searchTickets", "getTicketStats"}
Ready == lastOp.op \notin ReadOps

Init ==
    /\ hbee = << >>
    /\ now = NowStart
    /\ ops = 0
    /\ lastOp = NoOp
    /\ written = [id \in Ids |-> NotWritten]
    /\ initialized = FALSE
    /\ scoreOp = NoOp
    /\ scheduler = "none"
    /\ tick = Idle
    /\ rpc = NoOp
    /\ client = NoOp
    /\ announce = NoOp
    /\ runs = << >>

\* storeTicket(ticket)
StoreTicket(t) ==
    /\ Ready
    /\ ops < MaxOps
    /\ hbee' = storeTicket(hbee, t, now)
    /\ now' = now + 1
    /\ ops' = ops + 1
    /\ lastOp' = [op |-> "storeTicket", ticket |-> t, ret |-> t.id]
    /\ written' = [written EXCEPT ![t.id] = [kind |-> "stored", ticket |-> t]]
    /\ UNCHANGED scoreVars
    /\ UNCHANGED serverVars
    /\ UNCHANGED peerVars

\* updateTicket(ticket) as the re-triage calls it: a ticket read from the
\* store, with a new urgency and lastUpdated
UpdateTicket(id, u) ==
    /\ Ready
    /\ ops < MaxOps
    /\ getTicket(hbee, id) # Null
    /\ LET old == getTicket(hbee, id)
           t == [f \in (DOMAIN old) \cup {"lastUpdated"} |->
                    IF f = "urgency" THEN u
                    ELSE IF f = "lastUpdated" THEN now ELSE old[f]]
       IN  /\ u # old.urgency
           /\ hbee' = storeTicket(hbee, t, now)
           /\ lastOp' = [op |-> "updateTicket", ticket |-> t, ret |-> t.id]
           /\ written' = [written EXCEPT ![id] = [kind |-> "stored", ticket |-> t]]
    /\ now' = now + 1
    /\ ops' = ops + 1
    /\ UNCHANGED scoreVars
    /\ UNCHANGED serverVars
    /\ UNCHANGED peerVars

\* deleteTicket(ticketId)
DeleteTicket(id) ==
    /\ Ready
    /\ ops < MaxOps
    /\ hbee' = deleteTicket(hbee, id)
    /\ now' = now + 1
    /\ ops' = ops + 1
    /\ lastOp' = [op |-> "deleteTicket", id |-> id,
                  ret |-> (getTicket(hbee, id) # Null)]
    /\ written' = IF getTicket(hbee, id) # Null
                  THEN [written EXCEPT ![id] = [kind |-> "deleted"]]
                  ELSE written
    /\ UNCHANGED scoreVars
    /\ UNCHANGED serverVars
    /\ UNCHANGED peerVars

\* getTicket(ticketId)
GetTicket(id) ==
    /\ Ready
    /\ lastOp' = [op |-> "getTicket", id |-> id, ret |-> getTicket(hbee, id)]
    /\ UNCHANGED <<hbee, now, ops, written>>
    /\ UNCHANGED scoreVars
    /\ UNCHANGED serverVars
    /\ UNCHANGED peerVars

\* getPendingTickets()
GetPendingTickets ==
    /\ Ready
    /\ lastOp' = [op |-> "getPendingTickets", ret |-> getPendingTickets(hbee)]
    /\ UNCHANGED <<hbee, now, ops, written>>
    /\ UNCHANGED scoreVars
    /\ UNCHANGED serverVars
    /\ UNCHANGED peerVars

\* searchTickets(options)
SearchTickets(q) ==
    /\ Ready
    /\ IF searchTicketsThrows(hbee, q)
       THEN lastOp' = [op |-> "searchTickets", q |-> q, threw |-> TRUE]
       ELSE \E r \in searchTickets(hbee, q) :
               lastOp' = [op |-> "searchTickets", q |-> q, ret |-> r,
                          fetched |-> Gather(hbee, q).fetched]
    /\ UNCHANGED <<hbee, now, ops, written>>
    /\ UNCHANGED scoreVars
    /\ UNCHANGED serverVars
    /\ UNCHANGED peerVars

Next ==
    \/ \E t \in Tickets : StoreTicket(t)
    \/ \E id \in Ids, u \in Urgencies : UpdateTicket(id, u)
    \/ \E id \in Ids : DeleteTicket(id)
    \/ \E id \in Ids : GetTicket(id)
    \/ GetPendingTickets
    \/ \E q \in Queries : SearchTickets(q)

Spec == Init /\ [][Next]_vars

\* getTicketStats()
GetTicketStats ==
    /\ Ready
    /\ lastOp' = [op |-> "getTicketStats", ret |-> getTicketStats(hbee)]
    /\ UNCHANGED <<hbee, now, ops, written>>
    /\ UNCHANGED scoreVars
    /\ UNCHANGED serverVars
    /\ UNCHANGED peerVars

\* something other than the store overwrites the primary record of a
\* ticket with bytes that are not JSON
Corrupt(id) ==
    /\ Ready
    /\ PrimaryKey(id) \in DOMAIN hbee
    /\ hbee[PrimaryKey(id)] # Malformed
    /\ hbee' = Put(hbee, PrimaryKey(id), Malformed)
    /\ lastOp' = [op |-> "corrupt", id |-> id]
    /\ UNCHANGED <<now, ops, written>>
    /\ UNCHANGED scoreVars
    /\ UNCHANGED serverVars
    /\ UNCHANGED peerVars

\* the store with records that can fail to decode
NextCorrupt ==
    \/ \E t \in Tickets : StoreTicket(t)
    \/ \E id \in Ids : Corrupt(id)
    \/ \E q \in Queries : SearchTickets(q)
    \/ GetTicketStats

SpecCorrupt == Init /\ [][NextCorrupt]_vars

\* the process dies inside storeTicket(ticket), after the primary put and
\* k index puts, and is started again
StoreTicketCrash(t, k) ==
    /\ Ready
    /\ ops < MaxOps
    /\ hbee' = storeTicketCrashed(hbee, t, now, k)
    /\ now' = now + 1
    /\ ops' = ops + 1
    /\ lastOp' = [op |-> "crash", in |-> "storeTicket", ticket |-> t]
    /\ written' = [written EXCEPT ![t.id] = [kind |-> "stored", ticket |-> t]]
    /\ UNCHANGED scoreVars
    /\ UNCHANGED serverVars
    /\ UNCHANGED peerVars

\* the process dies inside deleteTicket(ticketId), after the primary del
\* and k index dels, and is started again
DeleteTicketCrash(id, k) ==
    /\ Ready
    /\ ops < MaxOps
    /\ getTicket(hbee, id) # Null
    /\ hbee' = deleteTicketCrashed(hbee, id, k)
    /\ now' = now + 1
    /\ ops' = ops + 1
    /\ lastOp' = [op |-> "crash", in |-> "deleteTicket", id |-> id]
    /\ written' = [written EXCEPT ![id] = [kind |-> "deleted"]]
    /\ UNCHANGED scoreVars
    /\ UNCHANGED serverVars
    /\ UNCHANGED peerVars

\* tickets, ids and searches of the runs with crashes
CrashIds == Ids
CrashTickets == {t \in Tickets : t.id \in CrashIds /\ Has(t, "createdAt")}
CrashQueries == {[status |-> SPending], [minUrgency |-> 0], [startTime |-> 1]}

\* the store with calls cut short by a crash
NextCrash ==
    \/ \E t \in CrashTickets : StoreTicket(t)
    \/ \E id \in CrashIds : DeleteTicket(id)
    \/ \E t \in CrashTickets, k \in {0, 2} : StoreTicketCrash(t, k)
    \/ \E id \in CrashIds, k \in 0..1 : DeleteTicketCrash(id, k)
    \/ \E q \in CrashQueries : SearchTickets(q)
    \/ GetPendingTickets

SpecCrash == Init /\ [][NextCrash]_vars

----------------------------------------------------------------------------
(* State machine of the scorer.  scoreOp records one calculateUrgency call *)
(* and its result; the call changes nothing else.                          *)

\* initialize(): the model loads (ok) or does not
Initialize(ok) ==
    /\ scoreOp.op = "none"
    /\ initialized' = ok
    /\ UNCHANGED <<scoreOp, hbee, now, ops, lastOp, written>>
    /\ UNCHANGED serverVars
    /\ UNCHANGED peerVars

\* calculateUrgency(ticket); the backend is asked only when initialized
CalculateUrgency ==
    /\ scoreOp.op = "none"
    /\ \E ticket \in ScoreTickets,
          response \in IF initialized THEN Responses ELSE {[kind |-> "throws"]} :
          scoreOp' = [op |-> "calculateUrgency", ticket |-> ticket,
                      response |-> response,
                      result |-> calculateUrgency(ticket, initialized, response, now)]
    /\ UNCHANGED <<initialized, hbee, now, ops, lastOp, written>>
    /\ UNCHANGED serverVars
    /\ UNCHANGED peerVars

NextScore ==
    \/ \E ok \in BOOLEAN : Initialize(ok)
    \/ CalculateUrgency

SpecScore == Init /\ [][NextScore]_vars

Hour == 3600
\* tickets and answers for two calls in a row
Month == 2592000

\* the two tickets of the demo client's urgency test, the first with the
\* type and recipient that score lowest, the second with those that score
\* highest, and both as the demo submits them
DemoTickets ==
    LET high == [value |-> 1000000, currency |-> SUSD, deadline |-> NowStart + Hour,
                 approvals |-> 0, requiredApprovals |-> 3]
        low == [value |-> 100, currency |-> SUSD, deadline |-> NowStart + Month,
                approvals |-> 1, requiredApprovals |-> 1]
    IN  { high @@ [type |-> KTest,
                   recipient |-> [address |-> SAddress, verified |-> TRUE,
                                  whitelisted |-> TRUE]],
          high @@ [type |-> KTest],
          low @@ [type |-> SEmergencyWithdrawal, recipient |-> [isNew |-> TRUE]],
          low @@ [type |-> KTest] }

PairTickets ==
    { v @@ d @@ a @@ t :
        v \in {EmptyObj, [value |-> 5000]},
        d \in {EmptyObj, [deadline |-> NowStart + 1800]},
        a \in {EmptyObj, [approvals |-> 1, requiredApprovals |-> 3]},
        t \in {EmptyObj, [type |-> STestPayment]} }
    \cup DemoTickets
PairResponses ==
    { [kind |-> "throws"],
      [kind |-> "json", parsed |-> [adjustment |-> JSNumber(50),
                                    summary |-> JSString(SLLMSummary)]] }

\* calculateUrgency that writes the score into the ticket it was given
ScoreCallStamping(ticket, response) ==
    /\ ~Has(scoreOp, "prev")
    /\ LET result == calculateUrgency(ticket, initialized, response, now)
           call == [op |-> "calculateUrgency", ticket |-> ticket,
                    after |-> [f \in (DOMAIN ticket) \cup {"urgency"} |->
                                  IF f = "urgency" THEN result.score ELSE ticket[f]],
                    init |-> initialized, response |-> response, clock |-> now,
                    result |-> result]
       IN  scoreOp' = IF scoreOp.op = "none" THEN call
                      ELSE [f \in (DOMAIN call) \cup {"prev"} |->
                               IF f = "prev" THEN scoreOp ELSE call[f]]
    /\ UNCHANGED <<initialized, hbee, now, ops, lastOp, written>>
    /\ UNCHANGED serverVars
    /\ UNCHANGED peerVars

\* calculateUrgency(ticket), the first or the second call of two: the
\* record keeps the ticket object as the call leaves it (after), the
\* instant of the call and, for the second call, the first (prev)
ScoreCall(ticket, response) ==
    /\ ~Has(scoreOp, "prev")
    /\ LET call == [op |-> "calculateUrgency", ticket |-> ticket, after |-> ticket,
                    init |-> initialized, response |-> response, clock |-> now,
                    result |-> calculateUrgency(ticket, initialized, response, now)]
       IN  scoreOp' = IF scoreOp.op = "none" THEN call
                      ELSE [f \in (DOMAIN call) \cup {"prev"} |->
                               IF f = "prev" THEN scoreOp ELSE call[f]]
    /\ UNCHANGED <<initialized, hbee, now, ops, lastOp, written>>
    /\ UNCHANGED serverVars
    /\ UNCHANGED peerVars

\* instants later than the construction: an hour later, an hour before and
\* an hour after the latest deadline
ScoreInstants == {NowStart + Hour, NowStart + Month - Hour, NowStart + Month + Hour}

\* time passes before a call
ScoreTimePasses(t) ==
    /\ ~Has(scoreOp, "prev")
    /\ now < t
    /\ now' = t
    /\ UNCHANGED <<initialized, scoreOp, hbee, ops, lastOp, written>>
    /\ UNCHANGED serverVars
    /\ UNCHANGED peerVars

NextScoreTwice ==
    \/ \E ok \in BOOLEAN : Initialize(ok)
    \/ \E ticket \in PairTickets,
          response \in IF initialized THEN PairResponses ELSE {[kind |-> "throws"]} :
          ScoreCall(ticket, response)
    \/ \E t \in ScoreInstants : ScoreTimePasses(t)

SpecScoreTwice == Init /\ [][NextScoreTwice]_vars

----------------------------------------------------------------------------
(* TriageServer (src/src/server.js): the submitTicket and getTicket        *)
(* handlers behind their RPC wrappers, the re-triage of pending tickets    *)
(* driven by a 60 second interval timer, and stop().                       *)

SErrTicketRequired == <<84, 105, 99, 107, 101, 116, 32, 100, 97, 116, 97, 32, 105, 115, 32, 114, 101, 113, 117, 105, 114, 101, 100>>   \* "Ticket data is required"
SErrIdRequired == <<84, 105, 99, 107, 101, 116, 32, 73, 68, 32, 105, 115, 32, 114, 101, 113, 117, 105, 114, 101, 100>>   \* "Ticket ID is required"
SErrNotFound == <<84, 105, 99, 107, 101, 116, 32, 110, 111, 116, 32, 102, 111, 117, 110, 100>>   \* "Ticket not found"

\* the catch of an RPC wrapper: {error: error.message, success: false}
ErrorResponse(message) == [success |-> FALSE, error |-> message]

\* the fields handleSubmitTicket sets before it scores the ticket
WithMetadata(ticket, id, clock) ==
    [f \in (DOMAIN ticket) \cup {"id", "createdAt", "status", "approvals",
                                 "requiredApprovals"} |->
        IF f = "id" THEN id
        ELSE IF f = "createdAt" THEN clock
        ELSE IF f = "status" THEN SPending
        ELSE IF f = "approvals" THEN ApprovalsCount(ticket)
        ELSE IF f = "requiredApprovals" THEN RequiredApprovals(ticket)
        ELSE ticket[f]]

\* the score fields handleSubmitTicket and the re-triage write on a ticket
WithScore(ticket, result) ==
    [f \in (DOMAIN ticket) \cup {"urgency", "urgencyBreakdown", "summary", "tags"} |->
        IF f = "urgency" THEN result.score
        ELSE IF f = "urgencyBreakdown" THEN result.breakdown
        ELSE IF f = "summary" THEN result.summary
        ELSE IF f = "tags" THEN result.tags
        ELSE ticket[f]]

\* JSON.stringify of the acknowledgment, as the caller parses it
Acknowledgment(ticket) ==
    [success |-> TRUE,
     ticketId |-> ticket.id,
     urgency |-> DecodeDec(EncodeDec(ticket.urgency)),
     summary |-> ticket.summary,
     tags |-> ticket.tags]

\* handleSubmitTicket that leaves requiredApprovals as the caller sent it
handleSubmitTicketNoDefaults(h, req, newId, init, response, clock) ==
    IF ~Has(req, "ticket") THEN [h |-> h, resp |-> ErrorResponse(SErrTicketRequired)]
    ELSE LET id == IF TruthyStr(req.ticket, "id") THEN req.ticket.id ELSE newId
             t0 == WithMetadata(req.ticket, id, clock)
             t1 == [f \in (DOMAIN t0) \ ({"requiredApprovals"} \ DOMAIN req.ticket) |-> t0[f]]
             t2 == WithScore(t1, calculateUrgency(t1, init, response, clock))
         IN  [h |-> storeTicket(h, t2, clock), resp |-> Acknowledgment(t2)]

\* the submitTicket handler: handleSubmitTicket(req) inside the wrapper
\* that turns a thrown error into a response; newId is the id
\* crypto.randomBytes gives when the request carries none
handleSubmitTicket(h, req, newId, init, response, clock) ==
    IF ~Has(req, "ticket") THEN [h |-> h, resp |-> ErrorResponse(SErrTicketRequired)]
    ELSE LET id == IF TruthyStr(req.ticket, "id") THEN req.ticket.id ELSE newId
             t1 == WithMetadata(req.ticket, id, clock)
             t2 == WithScore(t1, calculateUrgency(t1, init, response, clock))
         IN  [h |-> storeTicket(h, t2, clock), resp |-> Acknowledgment(t2)]

\* handleGetTicket that answers an unknown id with a null ticket
handleGetTicketNoCheck(h, req) ==
    IF ~TruthyStr(req, "ticketId") THEN ErrorResponse(SErrIdRequired)
    ELSE LET ticket == getTicket(h, req.ticketId)
         IN  [success |-> TRUE,
              ticket |-> IF ticket = Null THEN Null
                         ELSE JSONParse(JSONStringify(ticket))]

\* the getTicket handler inside its wrapper
handleGetTicket(h, req) ==
    IF ~TruthyStr(req, "ticketId") THEN ErrorResponse(SErrIdRequired)
    ELSE LET ticket == getTicket(h, req.ticketId)
         IN  IF ticket = Null THEN ErrorResponse(SErrNotFound)
             ELSE [success |-> TRUE, ticket |-> JSONParse(JSONStringify(ticket))]

Abs(x) == IF x < 0 THEN 0 - x ELSE x

\* the re-triage threshold with >= in place of >
OverThresholdInclusive(score, old) ==
    ~IsNaN(score) /\ Abs(score.num - NumOf(old)) >= 100

\* Math.abs(urgencyResult.score - ticket.urgency) > 0.1
OverThreshold(score, old) ==
    ~IsNaN(score) /\ Abs(score.num - NumOf(old)) > 100

\* the ticket the re-triage hands to updateTicket
ReTriaged(ticket, result, clock) ==
    LET t == WithScore(ticket, result)
    IN  [f \in (DOMAIN t) \cup {"lastUpdated"} |->
            IF f = "lastUpdated" THEN clock ELSE t[f]]

----------------------------------------------------------------------------
(* Inputs of the server                                                    *)

\* ids crypto.randomBytes can give, and ids callers supply
GeneratedIds == {SIdA}
ServerIds == GeneratedIds \cup {SPending}

\* a deadline a little more than a day ahead of the start
Deadline == NowStart + 100000

\* instants the clock can jump to: less than an hour before the deadline,
\* and well after it
Instants == {NowStart + 98000, NowStart + 700000}

RequestTickets ==
    { [type |-> SPayroll, value |-> 5000, deadline |-> Deadline],
      [type |-> STestPayment, approvals |-> 1, requiredApprovals |-> 3,
       deadline |-> Deadline, id |-> SPending] }

SubmitRequests == {EmptyObj} \cup {[ticket |-> t] : t \in RequestTickets}
GetRequests == {EmptyObj, [ticketId |-> SPending]}

\* answers of the backend to the server's prompts
ServerResponses ==
    { [kind |-> "throws"],
      [kind |-> "json",
       parsed |-> [adjustment |-> JSNumber(200), summary |-> JSString(SLLMSummary),
                   tags |-> JSArray(<<STagRisk, KPayroll, KVendor>>)]],
      [kind |-> "json", parsed |-> [adjustment |-> JSString(SHigh)]] }

ResponsesNow == IF initialized THEN ServerResponses ELSE {[kind |-> "throws"]}

----------------------------------------------------------------------------
(* State machine of the server.  scheduler is the interval timer ("none"   *)
(* before start(), "armed", "cleared" once stop() has returned); tick is   *)
(* the re-triage in flight, or the one that has just ended; rpc is the     *)
(* request just answered and its response.  A request that is rejected or  *)
(* only reads leaves the server as it is, so whatever can follow it can    *)
(* follow the state it was made in: the model records its response and     *)
(* starts nothing further from there.                                      *)

ServerReady ==
    ~(rpc.op = "getTicket" \/ (rpc.op = "submitTicket" /\ ~rpc.resp.success))

\* the record of a re-triage that has ended is kept until something else
\* happens
Forget(t) == IF t.pc = "idle" THEN Idle ELSE t

\* the stored tickets whose status is 'pending'
StoredPending(h) ==
    {t \in {getTicket(h, id) : id \in ServerIds} \ {Null} : t.status = SPending}

\* start(): the scorer is initialized (the model loads or does not), the
\* handlers are bound and the scheduler is started
Start(ok) ==
    /\ scheduler = "none"
    /\ scoreOp.op = "none"
    /\ lastOp.op = "none"
    /\ initialized' = ok
    /\ scheduler' = "armed"
    /\ UNCHANGED <<hbee, now, ops, lastOp, written, scoreOp, tick, rpc>>
    /\ UNCHANGED peerVars

\* a submitTicket request is answered
SubmitTicket(req) ==
    /\ scheduler = "armed"
    /\ ServerReady
    /\ ops < MaxOps
    /\ \E response \in ResponsesNow, newId \in GeneratedIds :
          LET out == handleSubmitTicket(hbee, req, newId, initialized, response, now)
          IN  /\ (Has(req, "ticket") /\ ~TruthyStr(req.ticket, "id"))
                    => newId \notin {t.id : t \in StoredPending(hbee)}
              /\ hbee' = out.h
              /\ rpc' = [op |-> "submitTicket", req |-> req, resp |-> out.resp,
                         n |-> ops]
    /\ tick' = Forget(tick)
    /\ now' = now + 1
    /\ ops' = ops + 1
    /\ UNCHANGED <<lastOp, written, initialized, scoreOp, scheduler>>
    /\ UNCHANGED peerVars

\* a getTicket request is answered
GetTicketRequest(req) ==
    /\ scheduler = "armed"
    /\ ServerReady
    /\ rpc' = [op |-> "getTicket", req |-> req, resp |-> handleGetTicket(hbee, req),
               n |-> ops]
    /\ UNCHANGED <<hbee, now, ops, lastOp, written, initialized, scoreOp,
                   scheduler, tick>>
    /\ UNCHANGED peerVars

\* time passes while no re-triage is in flight
TimePasses(t) ==
    /\ scheduler # "none"
    /\ ServerReady
    /\ tick.pc = "idle"
    /\ now < t
    /\ now' = t
    /\ tick' = Idle
    /\ rpc' = NoOp
    /\ UNCHANGED <<hbee, ops, lastOp, written, initialized, scoreOp, scheduler>>
    /\ UNCHANGED peerVars

\* the re-triage that has ended: when it started, how many tickets it
\* fetched, how many of them it went through, whether an error ended it,
\* and the last round's fresh score and the urgency it was compared with
Ended(t, done, aborted) ==
    [f \in (DOMAIN t \ {"list"}) \cup {"fetched", "aborted"} |->
        IF f = "pc" THEN "idle"
        ELSE IF f = "fetched" THEN Len(t.list)
        ELSE IF f = "done" THEN done
        ELSE IF f = "aborted" THEN aborted
        ELSE t[f]]

\* the round's fresh score and the urgency of the ticket as it was fetched
Round(t, score, old) ==
    [f \in (DOMAIN t) \cup {"score", "old"} |->
        IF f = "score" THEN score ELSE IF f = "old" THEN old ELSE t[f]]

\* the interval timer is set and no callback of it is running
TimerCanFire ==
    /\ scheduler = "armed"
    /\ ServerReady
    /\ tick.pc = "idle"

\* the timer fires: reTriagePendingTickets fetches the pending tickets
TickFetch ==
    /\ TimerCanFire
    /\ LET t == [pc |-> "loop", list |-> getPendingTickets(hbee),
                 start |-> now, done |-> 0]
       IN  tick' = IF t.list = << >> THEN Ended(t, 0, FALSE) ELSE t
    /\ rpc' = NoOp
    /\ UNCHANGED <<hbee, now, ops, lastOp, written, initialized, scoreOp, scheduler>>
    /\ UNCHANGED peerVars

\* a round whose failed write is not caught by the timer callback: the
\* rejection ends the process and its timer with it
TickProcessUncaught(persists) ==
    /\ ServerReady
    /\ tick.pc = "loop"
    /\ \E response \in ResponsesNow :
          LET ticket == tick.list[tick.done + 1]
              result == calculateUrgency(ticket, initialized, response, now)
              round == Round(tick, result.score, ticket.urgency)
              next == IF tick.done + 1 = Len(tick.list)
                      THEN Ended(round, tick.done + 1, FALSE)
                      ELSE [round EXCEPT !.done = tick.done + 1]
          IN  IF OverThreshold(result.score, ticket.urgency)
              THEN /\ ops < MaxOps
                   /\ IF persists
                      THEN /\ hbee' = storeTicket(hbee, ReTriaged(ticket, result, now), now)
                           /\ tick' = next
                           /\ scheduler' = scheduler
                      ELSE /\ hbee' = hbee
                           /\ tick' = Ended(round, tick.done, TRUE)
                           /\ scheduler' = "cleared"
                   /\ now' = now + 1
                   /\ ops' = ops + 1
              ELSE /\ persists
                   /\ tick' = next
                   /\ UNCHANGED <<hbee, now, ops, scheduler>>
    /\ rpc' = NoOp
    /\ UNCHANGED <<lastOp, written, initialized, scoreOp>>
    /\ UNCHANGED peerVars

\* one round of the loop of reTriagePendingTickets: the next ticket is
\* scored and, over the threshold, written back (persists) or the write
\* fails, which ends the re-triage in the catch of the timer callback
TickProcess(persists) ==
    /\ ServerReady
    /\ tick.pc = "loop"
    /\ \E response \in ResponsesNow :
          LET ticket == tick.list[tick.done + 1]
              result == calculateUrgency(ticket, initialized, response, now)
              round == Round(tick, result.score, ticket.urgency)
              next == IF tick.done + 1 = Len(tick.list)
                      THEN Ended(round, tick.done + 1, FALSE)
                      ELSE [round EXCEPT !.done = tick.done + 1]
          IN  IF OverThreshold(result.score, ticket.urgency)
              THEN /\ ops < MaxOps
                   /\ IF persists
                      THEN /\ hbee' = storeTicket(hbee, ReTriaged(ticket, result, now), now)
                           /\ tick' = next
                      ELSE /\ hbee' = hbee
                           /\ tick' = Ended(round, tick.done, TRUE)
                   /\ now' = now + 1
                   /\ ops' = ops + 1
              ELSE /\ persists
                   /\ tick' = next
                   /\ UNCHANGED <<hbee, now, ops>>
    /\ rpc' = NoOp
    /\ UNCHANGED <<lastOp, written, initialized, scoreOp, scheduler>>
    /\ UNCHANGED peerVars

\* stop(): clearInterval, the RPC server and the DHT are closed, the
\* scorer is cleaned up, and stop() returns
Stop ==
    /\ scheduler = "armed"
    /\ ServerReady
    /\ scheduler' = "cleared"
    /\ rpc' = NoOp
    /\ UNCHANGED <<hbee, now, ops, lastOp, written, initialized, scoreOp, tick>>
    /\ UNCHANGED peerVars

NextServer ==
    \/ \E ok \in BOOLEAN : Start(ok)
    \/ \E req \in SubmitRequests : SubmitTicket(req)
    \/ \E req \in GetRequests : GetTicketRequest(req)
    \/ \E t \in Instants : TimePasses(t)
    \/ TickFetch
    \/ \E persists \in BOOLEAN : TickProcess(persists)
    \/ Stop

SpecServer == Init /\ [][NextServer]_vars

TypeOK == ops \in 0..MaxOps

----------------------------------------------------------------------------
(* announceWithRetry (src/src/server.js).  announce is the call in flight  *)
(* or ended: its retries argument, the loop counter i, lastErr, the        *)
(* outcomes of the dht.announce calls made so far (log) and, once it has   *)
(* ended, how (returned, or threw with the value thrown).                  *)

MaxRetries == 3    \* largest retries argument
AnnounceErrors == {"timeout", "refused", "unreachable"}
Announced == "ok"
Undefined == "undefined"

\* announceWithRetry(dht, topic, keyPair, relays, retries) is called
AnnounceWithRetry(retries) ==
    /\ announce = NoOp
    /\ announce' = [pc |-> "loop", retries |-> retries, i |-> 0,
                    lastErr |-> Undefined, log |-> << >>]
    /\ UNCHANGED <<storeVars, scoreVars, serverVars, client, runs>>

\* one round of the loop that goes on while i <= retries
AnnounceAttemptInclusive(outcome) ==
    /\ announce # NoOp
    /\ announce.pc = "loop"
    /\ announce.i <= announce.retries
    /\ announce' =
          IF outcome = Announced
          THEN [announce EXCEPT !.pc = "returned", !.log = Append(@, outcome)]
          ELSE [announce EXCEPT !.i = @ + 1, !.lastErr = outcome,
                                !.log = Append(@, outcome)]
    /\ UNCHANGED <<storeVars, scoreVars, serverVars, client, runs>>

\* one round of the loop: dht.announce resolves, and the function
\* returns, or rejects with an error, which is kept and followed by the
\* backoff and i++
AnnounceAttempt(outcome) ==
    /\ announce # NoOp
    /\ announce.pc = "loop"
    /\ announce.i < announce.retries
    /\ announce' =
          IF outcome = Announced
          THEN [announce EXCEPT !.pc = "returned", !.log = Append(@, outcome)]
          ELSE [announce EXCEPT !.i = @ + 1, !.lastErr = outcome,
                                !.log = Append(@, outcome)]
    /\ UNCHANGED <<storeVars, scoreVars, serverVars, client, runs>>

\* the loop is left: throw lastErr
AnnounceGivesUp ==
    /\ announce # NoOp
    /\ announce.pc = "loop"
    /\ ~(announce.i < announce.retries)
    /\ announce' = [f \in (DOMAIN announce) \cup {"thrown"} |->
                       IF f = "pc" THEN "threw"
                       ELSE IF f = "thrown" THEN announce.lastErr
                       ELSE announce[f]]
    /\ UNCHANGED <<storeVars, scoreVars, serverVars, client, runs>>

NextAnnounce ==
    \/ \E retries \in 0..MaxRetries : AnnounceWithRetry(retries)
    \/ \E outcome \in AnnounceErrors \cup {Announced} : AnnounceAttempt(outcome)
    \/ AnnounceGivesUp

SpecAnnounce == Init /\ [][NextAnnounce]_vars

----------------------------------------------------------------------------
(* The server with its awaits as points where other callbacks run.  Every  *)
(* firing of the interval timer starts a callback of its own; runs holds   *)
(* the callbacks in flight, each with the tickets it fetched, how many it  *)
(* has gone through and, inside updateTicket, the ticket it is writing and *)
(* the number of puts done.  Requests are answered between these steps.    *)

MaxRuns == 2    \* callbacks of the timer in flight

PendingRequest == [ticketId |-> SPending]

\* two submissions under the same id with different fields
OverlapTickets ==
    { [type |-> STestPayment, approvals |-> 1, requiredApprovals |-> 3,
       deadline |-> Deadline, id |-> SPending],
      [type |-> SPayroll, value |-> 5000, deadline |-> Deadline, id |-> SPending] }

OverlapRequests == {[ticket |-> t] : t \in OverlapTickets}

\* the puts of storeTicket(ticket), one at a time, the primary record
\* written field by field: after the first put it has the new urgency on
\* the fields stored before
storeTicketStepFieldwise(h, ticket, clock, j) ==
    LET ticketData == [f \in (DOMAIN ticket) \cup {"storedAt"} |->
                          IF f = "storedAt" THEN clock ELSE ticket[f]]
        old == getTicket(h, ticket.id)
        half == IF old = Null THEN ticketData
                ELSE [old EXCEPT !.urgency = ticket.urgency]
    IN  IF j = 0 THEN Put(h, PrimaryKey(ticket.id), [json |-> JSONStringify(half)])
        ELSE Put(Put(h, PrimaryKey(ticket.id), [json |-> JSONStringify(ticketData)]),
                 createIndexKeys(ticket, clock)[j], Marker)

\* the puts of storeTicket(ticket), one at a time: put 0 writes the
\* primary record, put j the j-th index entry
storeTicketStep(h, ticket, clock, j) ==
    LET ticketData == [f \in (DOMAIN ticket) \cup {"storedAt"} |->
                          IF f = "storedAt" THEN clock ELSE ticket[f]]
    IN  IF j = 0 THEN Put(h, PrimaryKey(ticket.id), [json |-> JSONStringify(ticketData)])
        ELSE Put(h, createIndexKeys(ticket, clock)[j], Marker)

\* runs without the callback at position i
Without(rs, i) == SubSeq(rs, 1, i - 1) \o SubSeq(rs, i + 1, Len(rs))

\* the callback at position i is through with its current ticket
Through(rs, i) ==
    IF rs[i].done + 1 = Len(rs[i].list) THEN Without(rs, i)
    ELSE [rs EXCEPT ![i] = [pc |-> "score", list |-> rs[i].list,
                            done |-> rs[i].done + 1]]

\* the timer fires, whatever earlier callbacks are doing:
\* reTriagePendingTickets fetches the pending tickets
TimerFires ==
    /\ scheduler = "armed"
    /\ ServerReady
    /\ Len(runs) < MaxRuns
    /\ LET list == getPendingTickets(hbee)
       IN  /\ list # << >>
           /\ runs' = Append(runs, [pc |-> "score", list |-> list, done |-> 0])
    /\ rpc' = NoOp
    /\ UNCHANGED <<storeVars, scoreVars, scheduler, tick, client, announce>>

\* a callback scores its next ticket and, over the threshold, sets the
\* score fields on its copy and calls updateTicket
RunScore(i) ==
    /\ ServerReady
    /\ i \in DOMAIN runs
    /\ runs[i].pc = "score"
    /\ \E response \in ResponsesNow :
          LET ticket == runs[i].list[runs[i].done + 1]
              result == calculateUrgency(ticket, initialized, response, now)
              post == ReTriaged(ticket, result, now)
          IN  IF OverThreshold(result.score, ticket.urgency)
              THEN /\ ops < MaxOps
                   /\ ops' = ops + 1
                   /\ runs' = [runs EXCEPT ![i] =
                         [pc |-> "write", list |-> runs[i].list, done |-> runs[i].done,
                          post |-> post, began |-> now, k |-> 0,
                          old |-> handleGetTicket(hbee, PendingRequest),
                          new |-> handleGetTicket(storeTicket(hbee, post, now),
                                                  PendingRequest)]]
              ELSE /\ ops' = ops
                   /\ runs' = Through(runs, i)
    /\ rpc' = NoOp
    /\ UNCHANGED <<hbee, now, lastOp, written, scoreVars, scheduler, tick,
                   client, announce>>

\* a callback inside updateTicket does its next put
RunPut(i) ==
    /\ ServerReady
    /\ i \in DOMAIN runs
    /\ runs[i].pc = "write"
    /\ LET run == runs[i]
           last == run.k = Len(createIndexKeys(run.post, run.began))
       IN  /\ hbee' = storeTicketStep(hbee, run.post, run.began, run.k)
           /\ runs' = IF last THEN Through(runs, i)
                      ELSE [runs EXCEPT ![i].k = run.k + 1]
           /\ now' = IF last THEN now + 1 ELSE now
    /\ rpc' = NoOp
    /\ UNCHANGED <<ops, lastOp, written, scoreVars, scheduler, tick, client, announce>>

\* the server runs without a backend: its model did not load
NextOverlap ==
    \/ Start(FALSE)
    \/ \E req \in OverlapRequests : SubmitTicket(req)
    \/ GetTicketRequest(PendingRequest)
    \/ \E t \in Instants : TimePasses(t)
    \/ TimerFires
    \/ \E i \in 1..MaxRuns : RunScore(i)
    \/ \E i \in 1..MaxRuns : RunPut(i)

SpecOverlap == Init /\ [][NextOverlap]_vars

----------------------------------------------------------------------------
(* TriageClient (src/src/client.js).  client is the client object: its     *)
(* connected flag, whether config.serverPublicKey is unset ("none"),       *)
(* given to the constructor or found by the lookup, the number of          *)
(* rpc.request calls made, and the last method called with its outcome.    *)

RequestOps == {"submitTicket", "getTicket", "searchTickets", "ping"}
ErrNotConnected == "Client not connected"
ErrNoKey == "Server public key not configured"
ErrDiscovery == "Server public key not configured and discovery failed"

\* new TriageClient(config), with or without serverPublicKey
NewClient(key) ==
    /\ client = NoOp
    /\ key \in {"none", "configured"}
    /\ client' = [connected |-> FALSE, key |-> key, sent |-> 0,
                  last |-> [op |-> "constructor"]]
    /\ UNCHANGED <<storeVars, scoreVars, serverVars, announce, runs>>

\* connect(): storage and DHT start (up) or one of them throws; without a
\* key the lookup returns so many nodes, one of them with a public key
\* (keyed) or none
Connect(up, nodes, keyed) ==
    /\ client # NoOp
    /\ LET lookup == up /\ client.key = "none"
           key == IF lookup /\ nodes > 0 /\ keyed THEN "discovered" ELSE client.key
           call == [op |-> "connect", up |-> up, lookup |-> lookup, nodes |-> nodes]
       IN  client' =
              IF ~up
              THEN [client EXCEPT !.last = call @@ [outcome |-> "threw",
                                                    error |-> "startup"]]
              ELSE IF key = "none"
              THEN [client EXCEPT !.last = call @@ [outcome |-> "threw",
                                                    error |-> ErrDiscovery]]
              ELSE [client EXCEPT !.key = key, !.connected = TRUE,
                                  !.last = call @@ [outcome |-> "returned"]]
    /\ UNCHANGED <<storeVars, scoreVars, serverVars, announce, runs>>

\* a request method that sends without looking at the connected flag
RequestNoCheck(op, answered, again) ==
    /\ client # NoOp
    /\ client.sent < MaxOps
    /\ LET call == [op |-> op]
           retry == op = "ping" /\ ~answered
           ok == answered \/ (retry /\ again)
       IN  client' =
              [client EXCEPT !.sent = @ + (IF retry THEN 2 ELSE 1),
                             !.last = call @@ [outcome |-> IF ok THEN "returned"
                                                            ELSE "threw",
                                               error |-> "request"]]
    /\ UNCHANGED <<storeVars, scoreVars, serverVars, announce, runs>>

\* submitTicket / getTicket / searchTickets / ping: the request is
\* answered with success or not (an error response, or for ping a failed
\* rpc.request, after which ping sends once again)
Request(op, answered, again) ==
    /\ client # NoOp
    /\ client.sent < MaxOps
    /\ LET call == [op |-> op]
           retry == op = "ping" /\ ~answered
           ok == answered \/ (retry /\ again)
       IN  client' =
              IF ~client.connected
              THEN [client EXCEPT !.last = call @@ [outcome |-> "threw",
                                                    error |-> ErrNotConnected]]
              ELSE IF client.key = "none"
              THEN [client EXCEPT !.last = call @@ [outcome |-> "threw",
                                                    error |-> ErrNoKey]]
              ELSE [client EXCEPT !.sent = @ + (IF retry THEN 2 ELSE 1),
                                  !.last = call @@ [outcome |-> IF ok THEN "returned"
                                                                 ELSE "threw",
                                                    error |-> "request"]]
    /\ UNCHANGED <<storeVars, scoreVars, serverVars, announce, runs>>

\* disconnect(): rpc.destroy() and dht.destroy() resolve (down) or one of
\* them rejects
Disconnect(down) ==
    /\ client # NoOp
    /\ client' =
          IF down
          THEN [client EXCEPT !.connected = FALSE,
                              !.last = [op |-> "disconnect", outcome |-> "returned"]]
          ELSE [client EXCEPT !.last = [op |-> "disconnect", outcome |-> "threw",
                                        error |-> "destroy"]]
    /\ UNCHANGED <<storeVars, scoreVars, serverVars, announce, runs>>

NextClient ==
    \/ \E key \in {"none", "configured"} : NewClient(key)
    \/ \E up \in BOOLEAN, nodes \in 0..1, keyed \in BOOLEAN : Connect(up, nodes, keyed)
    \/ \E op \in RequestOps, answered \in BOOLEAN, again \in BOOLEAN :
          Request(op, answered, again)
    \/ \E down \in BOOLEAN : Disconnect(down)

SpecClient == Init /\ [][NextClient]_vars

----------------------------------------------------------------------------
(* Properties of the store                                                 *)

SetOf(seq) == {seq[i] : i \in 1..Len(seq)}

\* the tickets that have a primary record
StoredTickets(h) == {getTicket(h, id) : id \in Ids} \ {Null}

IsSearch == lastOp.op = "searchTickets"
TimeFields == {"startTime", "endTime"}
Restrict(q, F) == [f \in (DOMAIN q) \cap F |-> q[f]]

\* what searchTickets(q) returns, as a set
ReturnedSet(h, q) == UNION {SetOf(r) : r \in searchTickets(h, q)}

\* C1: getPendingTickets returns every stored ticket whose status is
\* 'pending'.
C1_PendingAllReturned ==
    lastOp.op = "getPendingTickets" =>
        \A t \in StoredTickets(hbee) :
            t.status = SPending => t \in SetOf(lastOp.ret)

\* C2: a search with a time range [startTime, endTime] returns the stored
\* tickets with startTime <= createdAt <= endTime, when they are no more
\* than limit.
C2_TimeRangeReturned ==
    (IsSearch /\ TimeFields \subseteq DOMAIN lastOp.q
              /\ DOMAIN lastOp.q \subseteq TimeFields \cup {"limit"}) =>
        LET q == lastOp.q
            inRange == {t \in StoredTickets(hbee) :
                           /\ Has(t, "createdAt")
                           /\ q.startTime <= t.createdAt
                           /\ t.createdAt <= q.endTime}
        IN  Cardinality(inRange) <= LimitOf(q) => SetOf(lastOp.ret) = inRange

\* C3: searchTickets({status: s}) returns only tickets whose stored status
\* equals s.
C3_StatusOnly ==
    (IsSearch /\ Has(lastOp.q, "status")
              /\ DOMAIN lastOp.q \subseteq {"status", "limit"}) =>
        \A t \in SetOf(lastOp.ret) : t.status = lastOp.q.status

\* C4: searchTickets({minUrgency: m}) returns only tickets whose stored
\* urgency is >= m.
C4_MinUrgencyOnly ==
    (IsSearch /\ Has(lastOp.q, "minUrgency")
              /\ DOMAIN lastOp.q \subseteq {"minUrgency", "limit"}) =>
        \A t \in SetOf(lastOp.ret) : NumOf(t.urgency) >= lastOp.q.minUrgency

\* the single-predicate searches a query is made of
SinglePredicates(q) ==
    {Restrict(q, F) : F \in {TimeFields, {"minUrgency"}, {"status"}}} \ {EmptyObj}

IsTwoPredicateSearch ==
    /\ IsSearch
    /\ ~Has(lastOp.q, "limit")
    /\ Cardinality(SinglePredicates(lastOp.q)) = 2

\* C5: a search with two predicates (and no truncation) returns the union
\* of what the two single-predicate searches return.
C5_UnionOfPredicates ==
    IsTwoPredicateSearch =>
        SetOf(lastOp.ret) =
            UNION {ReturnedSet(hbee, p) : p \in SinglePredicates(lastOp.q)}

\* a two-predicate search has run whose two single-predicate results are
\* both non-empty and share no ticket
C5_Witness ==
    /\ IsTwoPredicateSearch
    /\ \A p \in SinglePredicates(lastOp.q) : ReturnedSet(hbee, p) # {}
    /\ \E p1, p2 \in SinglePredicates(lastOp.q) :
          ReturnedSet(hbee, p1) \cap ReturnedSet(hbee, p2) = {}
    /\ Cardinality(SetOf(lastOp.ret)) >= 2

\* C6: the result of searchTickets is sorted by urgency descending, ties by
\* createdAt descending, and is no longer than limit (50 by default).
C6_SortedAndLimited ==
    IsSearch =>
        /\ Len(lastOp.ret) <= LimitOf(lastOp.q)
        /\ \A i, j \in 1..Len(lastOp.ret) :
              i < j =>
                LET a == lastOp.ret[i]
                    b == lastOp.ret[j]
                IN  \/ NumOf(a.urgency) > NumOf(b.urgency)
                    \/ /\ NumOf(a.urgency) = NumOf(b.urgency)
                       /\ (Has(a, "createdAt") /\ Has(b, "createdAt"))
                             => a.createdAt >= b.createdAt

\* the index keys of one dimension that end in the ticket's id
IndexKeysOf(h, prefix, id) ==
    {k \in DOMAIN h : /\ StartsWith(k, prefix)
                      /\ Len(Split(k)) = 4
                      /\ Split(k)[4] = id}

\* C7: each stored ticket has exactly one index entry per applicable
\* dimension, and the entry carries the ticket's current field value.
C7_OneIndexEntryPerDimension ==
    \A t \in StoredTickets(hbee) :
        /\ Cardinality(IndexKeysOf(hbee, SIndexTime, t.id)) = 1
        /\ Has(t, "createdAt") =>
              IndexKeysOf(hbee, SIndexTime, t.id) =
                  {SIndexTime \o NumToStr(t.createdAt) \o SColon \o t.id}
        /\ IndexKeysOf(hbee, SIndexUrgency, t.id) =
              {SIndexUrgency \o UrgencyKey(t.urgency) \o SColon \o t.id}
        /\ IndexKeysOf(hbee, SIndexStatus, t.id) =
              {SIndexStatus \o t.status \o SColon \o t.id}
        /\ IndexKeysOf(hbee, SIndexType, t.id) =
              IF Has(t, "type") THEN {SIndexType \o t.type \o SColon \o t.id} ELSE {}
        /\ IndexKeysOf(hbee, SIndexDeadline, t.id) =
              IF Has(t, "deadline")
              THEN {SIndexDeadline \o NumToStr(t.deadline) \o SColon \o t.id} ELSE {}

C9_Delete ==
    /\ [][(ops' = ops + 1 /\ lastOp'.op = "deleteTicket") =>
            IF PrimaryKey(lastOp'.id) \in DOMAIN hbee
            THEN lastOp'.ret = TRUE /\ PrimaryKey(lastOp'.id) \notin DOMAIN hbee'
            ELSE lastOp'.ret = FALSE /\ hbee' = hbee]_vars
    /\ []((lastOp.op = "getTicket" /\ written[lastOp.id].kind = "deleted")
            => lastOp.ret = Null)

\* a stored ticket was deleted and a getTicket of its id has then run
C9_Witness ==
    /\ lastOp.op = "getTicket"
    /\ written[lastOp.id].kind = "deleted"

\* C29: after deleteTicket(id) has returned true the store holds no index
\* entry of any dimension for the id, whatever stores and updates preceded.
C29_DeleteRemovesEveryIndexEntry ==
    (lastOp.op = "deleteTicket" /\ lastOp.ret = TRUE) =>
        IndexKeysOf(hbee, SIndex, lastOp.id) = {}

\* the number an index key of a numeric dimension carries
KeyNumber(k) == IF StartsWith(k, SIndexUrgency) THEN StrToDec(Split(k)[3])
                ELSE StrToNum(Split(k)[3])

\* C30: in the time, deadline and urgency dimensions the order of the index
\* keys is the order of the numbers in them: of two entries the one with
\* the smaller number has the smaller key.
C30_KeyOrderIsNumericOrder ==
    \A prefix \in {SIndexTime, SIndexDeadline, SIndexUrgency} :
        \A k1, k2 \in {k \in DOMAIN hbee : StartsWith(k, prefix)} :
            KeyNumber(k1) < KeyNumber(k2) => StrLess(k1, k2)

\* no element occurs twice in the sequence
NoRepeat(list) == \A i, j \in 1..Len(list) : list[i] = list[j] => i = j

\* C27: no ticket id occurs more than once in a searchTickets result, for
\* any combination of predicates, and no record is fetched from the
\* primary store more than once.
C27_NoDuplicateIds ==
    (IsSearch /\ Has(lastOp, "ret")) =>
        /\ NoRepeat([i \in 1..Len(lastOp.ret) |-> lastOp.ret[i].id])
        /\ NoRepeat(lastOp.fetched)

\* two predicates whose index scans both yield the id of a ticket returned
C27_Witness ==
    /\ IsSearch
    /\ UsesTime(lastOp.q) /\ UsesUrgency(lastOp.q)
    /\ \E id \in Range(searchByTimeRange(hbee, lastOp.q))
                 \cap Range(searchByMinUrgency(hbee, lastOp.q.minUrgency)) :
          \E i \in 1..Len(lastOp.ret) : lastOp.ret[i].id = id

----------------------------------------------------------------------------
(* Properties of the scorer                                                *)

IsScored == scoreOp.op = "calculateUrgency"

\* C10: for every ticket and every answer of the backend, the score
\* returned by calculateUrgency is a number in [0,1].
C10_ScoreInUnitInterval ==
    IsScored =>
        /\ ~IsNaN(scoreOp.result.score)
        /\ scoreOp.result.score.num >= 0
        /\ scoreOp.result.score.num <= 1000

\* the backend was not available to the recorded call: the scorer is not
\* initialized, or the prompt call threw
BackendUnavailable == ~initialized \/ scoreOp.response.kind = "throws"

\* C11: when the backend is uninitialized or its prompt call throws,
\* calculateUrgency returns adjustment 0, the deterministic base score as
\* score, and the deterministic summary and tags.
C11_BackendFailureIsNoAdjustment ==
    (IsScored /\ BackendUnavailable) =>
        /\ scoreOp.result.breakdown.llmAdjustment = Num(0)
        /\ scoreOp.result.score =
              Num(calculateDeterministicUrgency(scoreOp.ticket, now))
        /\ scoreOp.result.summary = generateDeterministicSummary(scoreOp.ticket)
        /\ scoreOp.result.tags = generateDeterministicTags(scoreOp.ticket, now)

\* the scorer is initialized and the prompt call of the recorded call threw
C11_Witness ==
    /\ IsScored
    /\ initialized
    /\ scoreOp.response.kind = "throws"
    /\ Len(scoreOp.result.tags) >= 3

\* C12: every result of calculateUrgency carries at most 5 tags.
C12_AtMostFiveTags ==
    IsScored => Len(scoreOp.result.tags) <= 5

\* the backend was not available to a recorded call
NoBackend(call) == ~call.init \/ call.response.kind = "throws"

HighExample(call) ==
    /\ Has(call.ticket, "value") /\ call.ticket.value = 1000000
    /\ Has(call.ticket, "currency") /\ call.ticket.currency = SUSD
    /\ Has(call.ticket, "deadline") /\ call.ticket.deadline - call.clock = Hour
    /\ ApprovalsCount(call.ticket) = 0
    /\ RequiredApprovals(call.ticket) = 3

\* value 100 USD, deadline 30 days away, 1 of 1 approvals
LowExample(call) ==
    /\ Has(call.ticket, "value") /\ call.ticket.value = 100
    /\ Has(call.ticket, "currency") /\ call.ticket.currency = SUSD
    /\ Has(call.ticket, "deadline") /\ call.ticket.deadline - call.clock = Month
    /\ ApprovalsCount(call.ticket) = 1
    /\ RequiredApprovals(call.ticket) = 1

\* C22: the base score is 0.30*value + 0.25*deadline + 0.20*approvals +
\* 0.15*type + 0.10*recipient over the sum of the weights; a ticket of
\* 1,000,000 USD due in an hour with 0 of 3 approvals has a higher base
\* score than one of 100 USD due in 30 days with 1 of 1 approvals.
C22_WeightedAverage ==
    IsScored =>
        LET base == scoreOp.result.breakdown.baseUrgency
            f == scoreOp.result.breakdown.factors
        IN  /\ base * (30 + 25 + 20 + 15 + 10) =
                  30 * f.value + 25 * f.deadline + 20 * f.approvals
                  + 15 * f.type + 10 * f.recipient
            /\ (Has(scoreOp, "prev") /\ HighExample(scoreOp.prev) /\ LowExample(scoreOp))
               => scoreOp.prev.result.breakdown.baseUrgency > base

\* the high ticket with the type and recipient that score lowest, then the
\* low ticket with the type and recipient that score highest
C22_Witness ==
    /\ IsScored
    /\ Has(scoreOp, "prev")
    /\ HighExample(scoreOp.prev)
    /\ LowExample(scoreOp)
    /\ scoreOp.prev.result.breakdown.factors.type = 100
    /\ scoreOp.prev.result.breakdown.factors.recipient = 200
    /\ scoreOp.result.breakdown.factors.type = 900
    /\ scoreOp.result.breakdown.factors.recipient = 800

\* the backend answered the recorded call, and its answer holds no {...}
\* block or one that JSON.parse rejects
Unstructured ==
    IsScored /\ initialized /\ scoreOp.response.kind \in {"text", "malformed"}

\* C23: when the backend's answer holds no structured block or a malformed
\* one, the adjustment is 0 and the summary and tags returned are the
\* deterministic summary and tags of the ticket.
C23_UnstructuredAnswerDiscarded ==
    Unstructured =>
        /\ scoreOp.result.breakdown.llmAdjustment = Num(0)
        /\ scoreOp.result.summary = generateDeterministicSummary(scoreOp.ticket)
        /\ scoreOp.result.tags = generateDeterministicTags(scoreOp.ticket, now)

\* C24: whatever adjustment the backend returns, the adjustment applied is
\* within [-0.2, 0.2], the final score is clamp(base + adjustment, 0, 1),
\* and the final score is within 0.2 of the base score.
C24_AdjustmentBounded ==
    IsScored =>
        LET adj == scoreOp.result.breakdown.llmAdjustment
            base == scoreOp.result.breakdown.baseUrgency
            sum == base + adj.num
            clamp == IF sum < 0 THEN 0 ELSE IF sum > 1000 THEN 1000 ELSE sum
        IN  /\ ~IsNaN(adj)
            /\ adj.num >= -200 /\ adj.num <= 200
            /\ scoreOp.result.score = Num(clamp)
            /\ Abs(clamp - base) <= 200

\* C25: the approvals factor is 0.1 when count >= required, else 0.9 when
\* count = 0, else 0.3 when count = required - 1, else 0.6, required being
\* 2 when unset; so 0 of 1 gives 0.9 and 1 of 3 gives 0.6.
C25_ApprovalsBuckets ==
    IsScored =>
        LET t == scoreOp.ticket
            count == IF Has(t, "approvals") THEN t.approvals ELSE 0
            required == IF Has(t, "requiredApprovals") THEN t.requiredApprovals ELSE 2
            factor == scoreOp.result.breakdown.factors.approvals
        IN  /\ count >= required => factor = 100
            /\ (count < required /\ count = 0) => factor = 900
            /\ (count < required /\ count # 0 /\ count = required - 1) => factor = 300
            /\ (count < required /\ count # 0 /\ count # required - 1) => factor = 600
            /\ (required = 1 /\ count = 0) => factor = 900
            /\ (required = 3 /\ count = 1) => factor = 600

\* a ticket with requiredApprovals 1 and no approvals has been scored
C25_Witness ==
    /\ IsScored
    /\ Has(scoreOp.ticket, "requiredApprovals")
    /\ scoreOp.ticket.requiredApprovals = 1
    /\ ApprovalsCount(scoreOp.ticket) = 0
    /\ scoreOp.result.breakdown.factors.approvals = 900

\* the tag a fallback tag list holds at a position, << >> past its end
TagAt(tags, i) == IF i <= Len(tags) THEN <<tags[i]>> ELSE << >>

\* C26: the fallback tags are, in this order: the lower-cased type if there
\* is one; high-value / low-value / medium-value if there is a value; approved /
\* pending-approval / partially-approved; urgent-deadline or near-deadline
\* if there is a deadline less than a day or a week away; at most 5.
C26_FallbackTagsInOrder ==
    (IsScored /\ ~initialized) =>
        LET t == scoreOp.ticket
            tags == scoreOp.result.tags
            hasType == Has(t, "type") /\ t.type # << >>
            hasValue == Has(t, "value") /\ t.value # 0
            hasDeadline == Has(t, "deadline") /\ t.deadline # 0
            count == IF Has(t, "approvals") THEN t.approvals ELSE 0
            required == IF Has(t, "requiredApprovals") THEN t.requiredApprovals ELSE 2
            pType == 1
            pValue == IF hasType THEN 2 ELSE 1
            pApproval == pValue + (IF hasValue THEN 1 ELSE 0)
            pDeadline == pApproval + 1
        IN  /\ Len(tags) <= 5
            /\ hasType => TagAt(tags, pType) = <<ToLowerCase(t.type)>>
            /\ hasValue =>
                  TagAt(tags, pValue) =
                     <<IF t.value > 100000 THEN THighValue
                       ELSE IF t.value < 1000 THEN TLowValue ELSE TMediumValue>>
            /\ TagAt(tags, pApproval) =
                  <<IF count >= required THEN TApproved
                    ELSE IF count = 0 THEN TPendingApproval ELSE TPartiallyApproved>>
            /\ TagAt(tags, pDeadline) =
                  IF hasDeadline /\ t.deadline - now < 86400 THEN <<TUrgentDeadline>>
                  ELSE IF hasDeadline /\ t.deadline - now < 604800 THEN <<TNearDeadline>>
                  ELSE << >>
            /\ Len(tags) <= pDeadline

\* a ticket with a type in capitals, a value above 100,000, some approvals
\* and a deadline within the day got its four fallback tags
C26_Witness ==
    /\ IsScored
    /\ ~initialized
    /\ Has(scoreOp.ticket, "type")
    /\ ToLowerCase(scoreOp.ticket.type) # scoreOp.ticket.type
    /\ Len(scoreOp.result.tags) = 4
    /\ scoreOp.result.tags[2] = THighValue
    /\ scoreOp.result.tags[3] = TPartiallyApproved
    /\ scoreOp.result.tags[4] = TUrgentDeadline

\* two calls without backend on the same ticket, which has a deadline, the
\* second not earlier than the first
Rescored ==
    /\ IsScored
    /\ Has(scoreOp, "prev")
    /\ NoBackend(scoreOp) /\ NoBackend(scoreOp.prev)
    /\ scoreOp.ticket = scoreOp.prev.ticket
    /\ Has(scoreOp.ticket, "deadline")
    /\ scoreOp.prev.clock <= scoreOp.clock

\* C36: for a ticket with a deadline and no backend, the deadline factor
\* and the score never decrease as the clock advances.
C36_ScoreGrowsWithTime ==
    Rescored =>
        /\ scoreOp.result.breakdown.factors.deadline >=
              scoreOp.prev.result.breakdown.factors.deadline
        /\ scoreOp.result.score.num >= scoreOp.prev.result.score.num

\* a ticket scored a month or more before its deadline and again after it
C36_Witness ==
    /\ Rescored
    /\ scoreOp.prev.result.breakdown.factors.deadline = 100
    /\ scoreOp.result.breakdown.factors.deadline = 1000
    /\ scoreOp.result.score.num > scoreOp.prev.result.score.num

----------------------------------------------------------------------------
(* Properties of the server                                                *)

\* a re-triage has ended and nothing has happened since
TickEnded == tick.pc = "idle" /\ Has(tick, "start")

\* a round of the re-triage loop is taken
IsRound == tick.pc = "loop" /\ tick' # tick

\* the score of a ticket when the backend is not available
Fresh(t, clock) == calculateUrgency(t, FALSE, [kind |-> "throws"], clock)

\* C13: when a re-triage runs while a stored pending ticket's fresh score
\* differs from its stored urgency by more than 0.1, the stored record has
\* the new urgency, breakdown, summary and tags and a lastUpdated set by
\* that re-triage once it has ended (stated where the fresh score is
\* known: the backend is not initialized).
C13_ReTriageRewrites ==
    (TickEnded /\ ~tick.aborted /\ ~initialized) =>
        \A t \in StoredPending(hbee) :
            t.createdAt < tick.start =>
                IF Has(t, "lastUpdated") /\ t.lastUpdated >= tick.start
                THEN LET r == Fresh(t, t.lastUpdated)
                     IN  /\ t.urgency = r.score
                         /\ t.urgencyBreakdown =
                               DecodeBreakdown(EncodeBreakdown(r.breakdown))
                         /\ t.summary = r.summary
                         /\ t.tags = r.tags
                ELSE ~OverThreshold(Fresh(t, tick.start).score, t.urgency)

\* C14: a round of the re-triage whose fresh score differs from the
\* ticket's stored urgency, as the re-triage fetched it, by at most 0.1
\* writes nothing: the store is unchanged.
C14_BelowThresholdNoWrite ==
    [][(IsRound /\ (IsNaN(tick'.score)
                     \/ Abs(tick'.score.num - NumOf(tick'.old)) <= 100))
          => hbee' = hbee]_vars

\* a round has compared a fresh score exactly 0.1 away from the stored one
C14_Witness ==
    /\ Has(tick, "score")
    /\ ~IsNaN(tick.score)
    /\ Abs(tick.score.num - NumOf(tick.old)) = 100
    /\ StoredPending(hbee) # {}

\* C15: a failure on one ticket does not end the re-triage: every other
\* ticket it fetched is still gone through.
C15_FailureDoesNotAbort ==
    (TickEnded /\ tick.aborted) => tick.done + 1 = tick.fetched

\* C16: once stop() has returned, no re-triage starts and no re-triage
\* write to the store occurs.
C16_StopEndsReTriage ==
    [][scheduler = "cleared" =>
          /\ hbee' = hbee
          /\ ~(tick.pc = "idle" /\ tick'.pc = "loop")]_vars

\* a submitTicket request is answered
IsSubmit == rpc' # rpc /\ rpc'.op = "submitTicket"
\* a getTicket request is answered
IsGet == rpc' # rpc /\ rpc'.op = "getTicket"

\* C17: a successful submitTicket assigns an id when the request has none,
\* sets status 'pending' and requiredApprovals 2 when unset, stores the
\* scored ticket, and acknowledges with the ticketId, urgency, summary and
\* tags of the record getTicket(ticketId) then returns.
C17_SubmitAcknowledges ==
    [][(IsSubmit /\ rpc'.resp.success) =>
          LET sent == rpc'.req.ticket
              ack == rpc'.resp
              r == getTicket(hbee', ack.ticketId)
          IN  /\ r # Null
              /\ IF TruthyStr(sent, "id") THEN ack.ticketId = sent.id
                 ELSE /\ ack.ticketId \in GeneratedIds
                      /\ getTicket(hbee, ack.ticketId) = Null
              /\ r.id = ack.ticketId
              /\ r.status = SPending
              /\ Has(r, "requiredApprovals")
              /\ r.requiredApprovals =
                    IF Has(sent, "requiredApprovals") THEN sent.requiredApprovals ELSE 2
              /\ Has(r, "urgency") /\ Has(r, "urgencyBreakdown")
              /\ ack.urgency = r.urgency
              /\ ack.summary = r.summary
              /\ ack.tags = r.tags]_vars

\* a ticket sent without id and without requiredApprovals was acknowledged
C17_Witness ==
    /\ rpc.op = "submitTicket"
    /\ rpc.resp.success
    /\ ~Has(rpc.req.ticket, "id")
    /\ ~Has(rpc.req.ticket, "requiredApprovals")
    /\ getTicket(hbee, rpc.resp.ticketId) # Null

\* C18: the createdAt of a stored ticket never changes.
C18_CreatedAtImmutable ==
    [][\A id \in ServerIds :
          (getTicket(hbee, id) # Null /\ getTicket(hbee', id) # Null)
             => getTicket(hbee', id).createdAt = getTicket(hbee, id).createdAt]_vars

\* C19: submitTicket without ticket data and getTicket without id are
\* answered with a validation error, getTicket for an unknown id with a
\* distinct not-found error, each as {success: false, error}, and none of
\* them changes the store.
C19_RejectedRequests ==
    [][/\ (IsSubmit /\ ~Has(rpc'.req, "ticket")) =>
             /\ rpc'.resp = [success |-> FALSE, error |-> SErrTicketRequired]
             /\ hbee' = hbee
       /\ (IsGet /\ ~TruthyStr(rpc'.req, "ticketId")) =>
             /\ rpc'.resp = [success |-> FALSE, error |-> SErrIdRequired]
             /\ hbee' = hbee
       /\ (IsGet /\ TruthyStr(rpc'.req, "ticketId")
                 /\ getTicket(hbee, rpc'.req.ticketId) = Null) =>
             /\ rpc'.resp = [success |-> FALSE, error |-> SErrNotFound]
             /\ SErrNotFound \notin {SErrTicketRequired, SErrIdRequired}
             /\ hbee' = hbee]_vars

\* with a ticket stored, a getTicket for an unknown id was rejected
C19_Witness ==
    /\ rpc.op = "getTicket"
    /\ TruthyStr(rpc.req, "ticketId")
    /\ ~rpc.resp.success
    /\ StoredPending(hbee) # {}


----------------------------------------------------------------------------
(* Records that fail to decode                                             *)

\* the store without the primary records that fail to decode
Decodable(h) == [k \in {x \in DOMAIN h : h[x] # Malformed} |-> h[k]]

\* C20: a primary record that fails to decode never aborts searchTickets,
\* with or without predicates, nor getTicketStats: the call completes and
\* returns what it returns for the other records
C20_MalformedRecordsSkipped ==
    /\ lastOp.op = "searchTickets" =>
          /\ Has(lastOp, "ret")
          /\ lastOp.ret \in searchTickets(Decodable(hbee), lastOp.q)
    /\ lastOp.op = "getTicketStats" =>
          lastOp.ret = getTicketStats(Decodable(hbee))

----------------------------------------------------------------------------
(* Calls cut short by a crash                                              *)

\* index keys of the store whose ticket has no primary record
Dangling(h) ==
    {k \in DOMAIN h : /\ StartsWith(k, SIndex)
                      /\ Len(Split(k)) = 4
                      /\ PrimaryKey(Split(k)[4]) \notin DOMAIN h}

\* the call recorded returned a list of tickets
ReturnedList ==
    \/ IsSearch /\ Has(lastOp, "ret")
    \/ lastOp.op = "getPendingTickets"

\* C28: an index entry whose primary record is absent never produces a
\* result of searchTickets or getPendingTickets: every ticket returned is
\* the current content of an existing primary record.
C28_ResultsArePrimaryRecords ==
    ReturnedList =>
        \A i \in 1..Len(lastOp.ret) :
            LET key == PrimaryKey(lastOp.ret[i].id)
            IN  /\ key \in DOMAIN hbee
                /\ Has(hbee[key], "json")
                /\ JSONParse(hbee[key].json) = lastOp.ret[i]

\* a search whose scan hit an id without primary record, with index
\* entries left behind in the store, returned a ticket
C28_Witness ==
    /\ IsSearch
    /\ Has(lastOp, "ret")
    /\ Dangling(hbee) # {}
    /\ \E i \in 1..Len(lastOp.fetched) : PrimaryKey(lastOp.fetched[i]) \notin DOMAIN hbee
    /\ Len(lastOp.ret) >= 1

----------------------------------------------------------------------------
(* Properties of announceWithRetry                                         *)

\* C38: announceWithRetry calls dht.announce at most retries times, makes
\* no call after the first that succeeds and returns then, and after
\* retries failures in a row throws the error of the last attempt.
C38_AnnounceWithRetry ==
    announce # NoOp =>
        LET calls == Len(announce.log)
        IN  /\ calls <= announce.retries
            /\ \A n \in 1..calls :
                  announce.log[n] = Announced => (n = calls /\ announce.pc = "returned")
            /\ announce.pc = "returned" =>
                  (calls >= 1 /\ announce.log[calls] = Announced)
            /\ announce.pc = "threw" =>
                  /\ calls = announce.retries
                  /\ \A n \in 1..calls : announce.log[n] \in AnnounceErrors
                  /\ calls >= 1 => announce.thrown = announce.log[calls]

\* two different failures, then the give-up
C38_Witness ==
    /\ announce # NoOp
    /\ announce.pc = "threw"
    /\ Len(announce.log) >= 2
    /\ announce.log[1] # announce.log[2]

----------------------------------------------------------------------------
(* Properties of the client                                                *)

\* C37: connected becomes true only by a connect() that returns, with a
\* server key configured or discovered, and is false once disconnect() has
\* returned; connect() throws and leaves it false when the lookup finds no
\* node; a request method called while it is false throws 'Client not
\* connected' and sends nothing.
C37_ConnectedFlag ==
    [][(client # NoOp /\ client' # client) =>
          /\ (client'.connected /\ ~client.connected) =>
                /\ client'.last.op = "connect"
                /\ client'.last.outcome = "returned"
                /\ client'.key \in {"configured", "discovered"}
          /\ (client'.last.op = "disconnect" /\ client'.last.outcome = "returned") =>
                ~client'.connected
          /\ (client'.last.op = "connect" /\ client'.last.lookup
                /\ client'.last.nodes = 0) =>
                /\ client'.last.outcome = "threw"
                /\ client'.last.error = ErrDiscovery
                /\ ~client'.connected
          /\ (client'.last.op \in RequestOps /\ ~client.connected) =>
                /\ client'.last.outcome = "threw"
                /\ client'.last.error = ErrNotConnected
                /\ client'.sent = client.sent]_vars

\* a client that found the server by lookup, sent a request and
\* disconnected had its next request refused
C37_Witness ==
    /\ client # NoOp
    /\ client.key = "discovered"
    /\ client.sent >= 1
    /\ ~client.connected
    /\ client.last.op \in RequestOps
    /\ client.last.error = ErrNotConnected

----------------------------------------------------------------------------
(* Properties of the scheduler                                             *)

\* a re-triage that an error has ended
TickFailed(t) == t.pc = "idle" /\ Has(t, "aborted") /\ t.aborted

\* C31: a failure inside reTriagePendingTickets ends that re-triage and
\* nothing else: the timer is as it was before the failure, and while it
\* is armed the next re-triage can start.
C31_TickNeverPropagates ==
    [][(tick.pc = "loop" /\ TickFailed(tick')) =>
          /\ scheduler' = scheduler
          /\ scheduler = "armed" => TimerCanFire']_vars

\* a re-triage has failed and the timer is still armed
C31_Witness == TickFailed(tick) /\ scheduler = "armed"

\* a step in which a re-triage runs from its fetch to its end with no
\* failure and with no other write in between: the timer fires and there
\* is nothing to go through, or the only ticket fetched is gone through
\* and no write has moved the clock since the fetch
TickCompletesAlone ==
    /\ rpc' = NoOp
    /\ tick' # tick
    /\ tick'.pc = "idle" /\ Has(tick', "aborted") /\ ~tick'.aborted
    /\ \/ tick.pc = "idle"
       \/ tick.pc = "loop" /\ tick.done = 0 /\ tick.start = now

\* C35: without a backend, when a re-triage has completed without a failure
\* and without a concurrent write, the urgency of every stored pending
\* ticket is within 0.1 of the score its fields give at that time.
C35_PendingScoresFresh ==
    [][(~initialized /\ TickCompletesAlone) =>
          \A t \in StoredPending(hbee') :
             ~OverThreshold(calculateUrgency(t, FALSE, [kind |-> "throws"], now').score,
                            t.urgency)]_vars

----------------------------------------------------------------------------
(* Properties of the server under interleaving                             *)

\* the only callback in flight is inside updateTicket, and nothing else
\* has been written since it called it
WritingAlone ==
    /\ Len(runs) = 1
    /\ runs[1].pc = "write"
    /\ runs[1].began = now

\* C32: a getTicket answered while a re-triage is writing that ticket
\* returns the record as it was before the write or as the write leaves
\* it.
C32_ReaderSeesWholeRecord ==
    (rpc.op = "getTicket" /\ WritingAlone) => rpc.resp \in {runs[1].old, runs[1].new}

\* getTicket answered with the new record between the primary put and
\* the last index put
C32_Witness ==
    /\ rpc.op = "getTicket"
    /\ WritingAlone
    /\ runs[1].k >= 1
    /\ rpc.resp = runs[1].new
    /\ rpc.resp # runs[1].old

\* the fields of a stored ticket that come from its submission
SubmittedFields(t) ==
    [f \in DOMAIN t \ {"urgency", "urgencyBreakdown", "summary", "tags",
                       "lastUpdated", "storedAt", "createdAt"} |-> t[f]]

\* C33: the write-back of a re-triage leaves the submitted fields of the
\* stored ticket as the latest submission set them.
C33_NoStaleWriteBack ==
    [][(runs # << >> /\ rpc' = NoOp /\ getTicket(hbee, SPending) # Null) =>
          SubmittedFields(getTicket(hbee', SPending))
             = SubmittedFields(getTicket(hbee, SPending))]_vars

\* C34: at most one callback of the timer is inside reTriagePendingTickets.
C34_OneTickInFlight == Len(runs) <= 1

====
